---- MODULE Spec2Model ----
(***************************************************************************)
(* A model of adaka's store: the single document, the selector registry,  *)
(* the change signal of every selector, and the listener notification     *)
(* protocol of Selector.notifyAll, including listeners that call back     *)
(* into the store while a notification round is running.                  *)
(*                                                                         *)
(* Strings that the code inspects character by character (field paths,    *)
(* expression keys) are sequences of one-character strings: "a.b" is      *)
(* <<"a", ".", "b">>.                                                     *)
(*                                                                         *)
(* Store.update is the one of the latest revision of the store, which     *)
(* takes one update expression or a list of them; Store.getState,         *)
(* Store.select and the Selector are the same code in both revisions.     *)
(***************************************************************************)
EXTENDS Integers, Sequences, FiniteSets, TLC

\* ------------------------------------------------------------------ bounds

\* field "a" of the document ranges over 0..MaxVal
MaxVal == 2
\* field "b" of the document ranges over 0..MaxB
MaxB == 1
\* distinct listener functions
NumListeners == 2
\* subscribe, unsubscribe and update calls in one behaviour, with the calls of
\* any kind made by listeners
MaxCalls == 3
\* calls made by listeners in one behaviour
MaxNested == 1
\* depth of the call stack: an update, and calls made by its listeners
MaxDepth == 2
\* update expressions in one update call
MaxExprs == 2
\* largest amount of a $inc
MaxInc == 1
\* objects of the heap in the snapshot check
MaxObjs == 8
\* levels of objects and arrays above the leaves of an expression tree
MaxTree == 2
\* segments of the longest path of the signal check
MaxSegs == 2
\* largest dependency set and longest changed list of the signal check
MaxPaths == 2
\* the selector condition of the model is {a: {$gt: CondThreshold}}
CondThreshold == 0
\* the longest array of a document an operator is tried on
MaxArr == 2
\* the calls the listeners of one round of notifyAll make on their selector
MaxOps == 3
\* $slice of a $push goes from -MaxPush to MaxPush
MaxPush == 3

\* ------------------------------------------------------------------ strings

\* UTF-16 code unit of a character (the order Array.prototype.sort uses)
Code(c) == CASE c = "." -> 46 [] c = "$" -> 36 [] c = "a" -> 97 [] c = "b" -> 98 [] OTHER -> 122

\* String.prototype.startsWith
startsWith(l, s) == Len(s) <= Len(l) /\ SubSeq(l, 1, Len(s)) = s

\* s < t in the default sort order of strings
RECURSIVE StrLess(_, _)
StrLess(s, t) ==
  IF s = <<>> THEN t # <<>>
  ELSE IF t = <<>> THEN FALSE
  ELSE IF s[1] # t[1] THEN Code(s[1]) < Code(t[1])
  ELSE StrLess(Tail(s), Tail(t))

\* Array.prototype.sort of a list of distinct strings
RECURSIVE SortStrs(_)
SortStrs(S) ==
  IF S = {} THEN <<>>
  ELSE LET m == CHOOSE x \in S : \A y \in S \ {x} : StrLess(x, y)
       IN <<m>> \o SortStrs(S \ {m})

\* the segments of a path, split at each "."
RECURSIVE Segments(_)
Segments(path) ==
  IF \A i \in DOMAIN path : path[i] # "." THEN <<path>>
  ELSE LET k == CHOOSE i \in DOMAIN path :
                  path[i] = "." /\ \A j \in 1..(i - 1) : path[j] # "."
       IN <<SubSeq(path, 1, k - 1)>> \o Segments(SubSeq(path, k + 1, Len(path)))

Range(seq) == {seq[i] : i \in DOMAIN seq}

\* Array.from(new Set(list)): first occurrences, in order
RECURSIVE Dedupe(_)
Dedupe(seq) ==
  IF seq = <<>> THEN <<>>
  ELSE LET init == Dedupe(SubSeq(seq, 1, Len(seq) - 1))
           last == seq[Len(seq)]
       IN IF last \in Range(init) THEN init ELSE Append(init, last)

\* ------------------------------------------------------------------ path algebra

sameAncestorNoBoundary(arr, path) ==
  \/ path \in arr
  \/ \E v \in arr :
       LET s == IF Len(path) < Len(v) THEN path ELSE v
           l == IF Len(path) < Len(v) THEN v ELSE path
       IN startsWith(l, s)

sameAncestorOneWay(arr, path) ==
  \/ path \in arr
  \/ \E v \in arr : startsWith(path, v \o <<".">>)
\* util.sameAncestor: arr is the expected set, path one changed path
sameAncestor(arr, path) ==
  \/ path \in arr
  \/ \E v \in arr :
       LET s == IF Len(path) < Len(v) THEN path ELSE v
           l == IF Len(path) < Len(v) THEN v ELSE path
       IN startsWith(l, s \o <<".">>)

\* the predicate Store.select builds for a selector: everything when no field is expected
pred(expected, path) == IF expected = {} THEN TRUE ELSE sameAncestor(expected, path)

\* the decision of the signal of Store.select for the changed list
signalNotify(changed, expected) ==
  LET isize == Cardinality(Range(changed) \cup expected)
      usize == Cardinality(expected) + Len(changed)
  IN isize < usize \/ \E i \in DOMAIN changed : pred(expected, changed[i])

\* ------------------------------------------------------------------ expressions

\* An expression (projection, condition) is a tree: a number, a boolean, null, a
\* string, an array of expressions, or an object, a list of key/value entries.
Num(n) == [t |-> "num", n |-> n]
Bool(b) == [t |-> "bool", b |-> b]
Null == [t |-> "null"]
Undef == [t |-> "undef"]
Str(s) == [t |-> "str", s |-> s]
Arr(items) == [t |-> "arr", items |-> items]
Obj(kv) == [t |-> "obj", kv |-> kv]
KV(k, v) == [k |-> k, v |-> v]

K_literal == <<"$", "l", "i", "t", "e", "r", "a", "l">>
K_slice == <<"$", "s", "l", "i", "c", "e">>
K_elemMatch == <<"$", "e", "l", "e", "m", "M", "a", "t", "c", "h">>
K_cond == <<"$", "c", "o", "n", "d">>
K_switch == <<"$", "s", "w", "i", "t", "c", "h">>
K_filter == <<"$", "f", "i", "l", "t", "e", "r">>
K_map == <<"$", "m", "a", "p">>
K_gt == <<"$", "g", "t">>
K_eq == <<"$", "e", "q">>

\* mingo's isOperator: a name that starts with "$"
isOperator(name) == Len(name) >= 2 /\ name[1] = "$"

\* the operator names exported by mingo/operators/update
updateOperators ==
  { <<"$", "s", "e", "t">>, <<"$", "u", "n", "s", "e", "t">>, <<"$", "i", "n", "c">>, <<"$", "m", "u", "l">>, <<"$", "m", "a", "x">>, <<"$", "m", "i", "n">>,
    <<"$", "p", "u", "s", "h">>, <<"$", "p", "u", "l", "l">>, <<"$", "p", "o", "p">>, <<"$", "a", "d", "d", "T", "o", "S", "e", "t">>, <<"$", "p", "u", "l", "l", "A", "l", "l">>,
    <<"$", "c", "u", "r", "r", "e", "n", "t", "D", "a", "t", "e">>, <<"$", "r", "e", "n", "a", "m", "e">>, <<"$", "b", "i", "t">> }

\* the operator names exported by mingo/operators/projection
projectionOperators == { K_elemMatch, K_slice }

KEYED_OPERATORS_MAP_None(key) == <<>>
\* KEYED_OPERATORS_MAP: the role slots of operators with keyed arguments
KEYED_OPERATORS_MAP(key) ==
  CASE key = K_cond -> << <<<<"i", "f">>>>, <<<<"t", "h", "e", "n">>>>, <<<<"e", "l", "s", "e">>>>, <<<<"0">>>>, <<<<"1">>>>, <<<<"2">>>> >>
    [] key = K_switch -> << <<<<"b", "r", "a", "n", "c", "h", "e", "s">>, <<"c", "a", "s", "e">>>>, <<<<"b", "r", "a", "n", "c", "h", "e", "s">>, <<"t", "h", "e", "n">>>>, <<<<"d", "e", "f", "a", "u", "l", "t">>>> >>
    [] key = K_filter -> << <<<<"i", "n", "p", "u", "t">>>>, <<<<"c", "o", "n", "d">>>>, <<<<"l", "i", "m", "i", "t">>>> >>
    [] key = K_map -> << <<<<"i", "n", "p", "u", "t">>>>, <<<<"i", "n">>>> >>
    [] OTHER -> <<>>

isDigit(c) == c \in {"0", "1", "2", "3", "4", "5", "6", "7", "8", "9"}
isText(field) == field = <<>> \/ \E i \in DOMAIN field : ~isDigit(field[i])
digitVal(c) == CASE c = "0" -> 0 [] c = "1" -> 1 [] c = "2" -> 2 [] c = "3" -> 3 [] c = "4" -> 4
                 [] c = "5" -> 5 [] c = "6" -> 6 [] c = "7" -> 7 [] c = "8" -> 8 [] OTHER -> 9

\* o[field] of an object or an array; undefined when there is none
getValue(o, field) ==
  IF o.t = "obj"
    THEN IF \E i \in DOMAIN o.kv : o.kv[i].k = field
           THEN o.kv[CHOOSE i \in DOMAIN o.kv : o.kv[i].k = field].v
           ELSE Undef
  ELSE IF o.t = "arr" /\ Len(field) = 1 /\ isDigit(field[1]) /\ digitVal(field[1]) < Len(o.items)
    THEN o.items[digitVal(field[1]) + 1]
  ELSE Undef

\* mingo's resolve of a dotted selector, given as its list of segments
RECURSIVE resolve(_, _)
resolve(o, path) ==
  IF path = <<>> THEN o
  ELSE IF isText(Head(path)) /\ o.t = "arr"
    THEN LET rs == [i \in DOMAIN o.items |-> resolve(o.items[i], path)]
         IN Arr(SelectSeq(rs, LAMBDA v : v # Undef))
  ELSE LET v == getValue(o, Head(path))
       IN IF v = Undef THEN Undef ELSE resolve(v, Tail(path))

\* Boolean(v) of an expression value
truthy(v) ==
  CASE v.t = "undef" -> FALSE
    [] v.t = "null" -> FALSE
    [] v.t = "num" -> v.n # 0
    [] v.t = "bool" -> v.b
    [] v.t = "str" -> v.s # <<>>
    [] OTHER -> TRUE

peekOperator(o) ==
  IF o.t = "obj" /\ Len(o.kv) = 1 /\ isOperator(o.kv[1].k) THEN o.kv[1].k ELSE <<>>

notProjectExpressionNever(o) == FALSE
notProjectExpression(o) ==
  /\ ~(o.t = "num" /\ o.n = 1)
  /\ ~(o.t = "bool" /\ o.b)
  /\ o.t # "obj"
  /\ o.t # "arr"
  /\ ~(o.t = "str" /\ startsWith(o.s, <<"$">>))

\* the $slice of the expression operators: an array argument that starts with no number
exprSlice(val) ==
  LET arg == getValue(val, K_slice)
  IN arg.t = "arr" /\ ~(Len(arg.items) > 0 /\ arg.items[1].t = "num")

isLoopVariableNever(s) == FALSE

\* a variable of an expression operator: a string that begins with "$$"
isLoopVariable(s) == startsWith(s, <<"$", "$">>)
\* util.getDependentPaths; parent is options.__parent, <<>> when there is none
RECURSIVE getDependentPaths(_, _, _)
getDependentPaths(expr, includeRootFields, parent) ==
  CASE expr.t = "str" ->
         IF isLoopVariable(expr.s) THEN {}
         ELSE IF startsWith(expr.s, <<"$">>) THEN {SubSeq(expr.s, 2, Len(expr.s))}
         ELSE IF parent # <<>> /\ ~isOperator(parent) THEN {parent}
         ELSE {}
    [] expr.t = "arr" ->
         UNION {getDependentPaths(expr.items[i], includeRootFields, parent) : i \in DOMAIN expr.items}
    [] expr.t = "obj" ->
         UNION {
           LET key == expr.kv[i].k
               val == expr.kv[i].v
           IN IF key = K_literal THEN {}
              ELSE IF isOperator(key) THEN
                LET nodes == KEYED_OPERATORS_MAP(key)
                    val2 == IF nodes # <<>> /\ val.t \in {"obj", "arr", "null"}
                              THEN Arr(SelectSeq([j \in DOMAIN nodes |-> IF val.t = "null" THEN val ELSE resolve(val, nodes[j])],
                                                 truthy))
                              ELSE val
                IN getDependentPaths(val2, includeRootFields,
                                     IF parent = <<>> /\ key \in updateOperators THEN key ELSE parent)
              ELSE IF isOperator(parent) /\ parent \in updateOperators THEN
                getDependentPaths(val, includeRootFields, key)
              ELSE IF ~includeRootFields /\ parent = <<>> /\ notProjectExpression(val) THEN {}
              ELSE
                LET op == peekOperator(val)
                    alias == /\ op # <<>>
                             /\ ~includeRootFields
                             /\ \/ parent = <<>> /\ op \notin projectionOperators
                                \/ parent # <<>> /\ op = K_slice
                                \/ parent = <<>> /\ op = K_slice /\ exprSlice(val)
                    ancestor == IF alias THEN <<>>
                                ELSE IF parent # <<>> THEN parent \o <<".">> \o key ELSE key
                IN getDependentPaths(val, includeRootFields, ancestor)
           : i \in DOMAIN expr.kv }
    [] OTHER -> IF parent # <<>> THEN {parent} ELSE {}

\* mingo's normalize of one condition value: a plain value v becomes {$eq: v}
normalize(v) ==
  IF v.t = "obj" /\ \E i \in DOMAIN v.kv : isOperator(v.kv[i].k) THEN v
  ELSE Obj(<<KV(K_eq, v)>>)

\* the expected paths Store.select computes for a (projection, condition) pair
expectedPaths(projection, condition) ==
  getDependentPaths(Obj([i \in DOMAIN condition.kv |->
                           KV(condition.kv[i].k, normalize(condition.kv[i].v))]),
                    TRUE, <<>>)
    \cup getDependentPaths(projection, FALSE, <<>>)

\* ------------------------------------------------------------------ document and views

VARIABLES
  doc,          \* Store.state: the document
  modified,     \* Store.modified: the full-state cache is out of date
  prevState,    \* Store.prevState: the cached full state
  selectors,    \* Store.selectors: hash -> Selector, in insertion order
  signals,      \* Store.signals: Selector -> the expected paths its signal closes over
  sels,         \* the Selector objects; a Selector is named by its index
  stack,        \* the calls in progress that run listeners, innermost last
  ret,          \* what the last finished call returned
  budget,       \* calls made so far
  hist,         \* record of the running (or last finished) outermost call
  sigChanged,   \* signal check: the changed list
  sigExpected,  \* signal check: the expected set
  sigResult,    \* signal check: the decision
  snap,         \* snapshot check: the objects of the heap and who holds them
  call          \* function check: the arguments of a call and its result

vars == <<doc, modified, prevState, selectors, signals, sels, stack, ret, budget, hist,
          sigChanged, sigExpected, sigResult, snap, call>>

Listeners == 1..NumListeners

InitialDoc == [a |-> 0, b |-> 0]
FieldValues(f) == IF f = "a" THEN 0..MaxVal ELSE 0..MaxB

\* undefined, and the NONE symbol of the selector
Undefined == [undefined |-> TRUE]
NONE == [none |-> TRUE]

FullProjection == Obj(<<>>)
EmptyCondition == Obj(<<>>)
BProjection == Obj(<<KV(<<"b">>, Num(1))>>)
ACondition == Obj(<<KV(<<"a">>, Obj(<<KV(K_gt, Num(CondThreshold))>>))>>)

\* the (projection, condition) pairs Store.select is called with
SelectInputs == {<<FullProjection, EmptyCondition>>, <<BProjection, ACondition>>,
                 <<Obj(<<KV(<<"b">>, Num(0))>>), EmptyCondition>>,
                 <<Obj(<<KV(<<"a">>, Num(1)), KV(<<"b">>, Num(2))>>), ACondition>>}

\* Query.test of the evaluator, for conditions {field: {$gt: n}} and {field: n}
queryTest(condition, d) ==
  \A i \in DOMAIN condition.kv :
    LET f == condition.kv[i].k[1]
        c == normalize(condition.kv[i].v)
    IN \A j \in DOMAIN c.kv :
         /\ c.kv[j].k = K_gt => d[f] > c.kv[j].v.n
         /\ c.kv[j].k = K_eq => d[f] = c.kv[j].v.n

\* $project of the evaluator, for inclusions {field: 1}; the empty projection keeps everything
project(d, projection) ==
  IF projection.kv = <<>> THEN d
  ELSE [f \in {projection.kv[i].k[1] : i \in DOMAIN projection.kv} \cap DOMAIN d |-> d[f]]

\* the view of a document under (projection, condition)
View(projection, condition, d) ==
  IF queryTest(condition, d) THEN project(d, projection) ELSE Undefined

\* Store.getState: the value returned, and the cache fields afterwards
storeGetState(projection, condition, d, mod, prev) ==
  LET cacheEnabled == projection = Obj(<<>>) /\ condition = EmptyCondition
      value == View(projection, condition, d)
  IN IF cacheEnabled /\ ~mod THEN [value |-> prev, modified |-> mod, prevState |-> prev]
     ELSE IF cacheEnabled THEN [value |-> value, modified |-> FALSE, prevState |-> value]
     ELSE [value |-> value, modified |-> mod, prevState |-> prev]

\* ------------------------------------------------------------------ listener sets

\* A Set of listeners is its list of entries in insertion order; a deleted entry
\* stays in the list as 0 while a call is running, so that a running iteration
\* keeps its place, and is dropped when no call is running.
setHasNever(entries, l) == FALSE
setHas(entries, l) == \E i \in DOMAIN entries : entries[i] = l
setSize(entries) == Cardinality({i \in DOMAIN entries : entries[i] # 0})
setAdd(entries, l) == IF setHas(entries, l) THEN entries ELSE Append(entries, l)
setDeleteNone(entries, l) == entries
setDelete(entries, l) == [i \in DOMAIN entries |-> IF entries[i] = l THEN 0 ELSE entries[i]]
setCompact(entries) == SelectSeq(entries, LAMBDA x : x # 0)
setMembers(entries) == Range(entries) \ {0}

NewSelector(projection, condition) ==
  [projection |-> projection, query |-> condition,
   listeners |-> <<>>, onceOnly |-> {}, value |-> Undefined, cached |-> FALSE,
   runs |-> [l \in Listeners |-> 0]]

\* Selector.getState: the value returned and the fields afterwards
selectorGetState(o, d, mod, prev) ==
  IF o.cached THEN [value |-> o.value, modified |-> mod, prevState |-> prev]
  ELSE storeGetState(o.projection, o.query, d, mod, prev)

\* ------------------------------------------------------------------ update operators

\* one update expression {$set: {f: v}}
SetExprs == {[op |-> "$set", f |-> f, v |-> v] : f \in {"a"}, v \in FieldValues("a")}
              \cup {[op |-> "$set", f |-> f, v |-> v] : f \in {"b"}, v \in FieldValues("b")}

\* one update expression {$inc: {b: v}}
IncExprs == {[op |-> "$inc", f |-> "b", v |-> v] : v \in 0..MaxInc}

\* $set: the document afterwards and the paths emitted
opSet(d, e) ==
  IF d[e.f] # e.v THEN [doc |-> [d EXCEPT ![e.f] = e.v], emitted |-> <<<<e.f>>>>]
  ELSE [doc |-> d, emitted |-> <<>>]

\* $inc: the field is written and its path emitted whatever the amount
opInc(d, e) == [doc |-> [d EXCEPT ![e.f] = @ + e.v], emitted |-> <<<<e.f>>>>]

\* the operator an update expression names
applyOperator(d, e) == IF e.op = "$inc" THEN opInc(d, e) ELSE opSet(d, e)

\* one call of the updater: nothing is done unless the condition holds
mutate(d, e, condition) ==
  IF queryTest(condition, d) THEN applyOperator(d, e) ELSE [doc |-> d, emitted |-> <<>>]

\* the expressions of one update applied in list order, each by its own call
\* of the updater
RECURSIVE mutateAll(_, _, _)
mutateAll(d, exprs, condition) ==
  IF exprs = <<>> THEN [doc |-> d, emitted |-> <<>>]
  ELSE LET r == mutate(d, Head(exprs), condition)
           rest == mutateAll(r.doc, Tail(exprs), condition)
       IN [doc |-> rest.doc, emitted |-> r.emitted \o rest.emitted]

changedFieldsUnsorted(emitted) == emitted

\* the changed list of Store.update: no duplicates, sorted
changedFields(emitted) == SortStrs(Range(Dedupe(emitted)))

UpdateInputs == UNION {[1..n -> SetExprs] : n \in 1..MaxExprs}

\* the lists of update expressions the computation of the fields list is tried on
FieldsInputs == UNION {[1..n -> SetExprs \cup IncExprs] : n \in 1..MaxExprs}

\* the conditions Store.update is called with
UpdateConditions == {EmptyCondition, ACondition}

\* ------------------------------------------------------------------ calls in progress

\* ------------------------------------------------------------------ objects and snapshots

\* An object of the heap is {n: number, c: nested object}: n is its number field
\* and child the place of its nested object in the heap (0: none).  The store made
\* by createStore(initial), for initial = {n: a, c: {n: x}}: objects 1 and 2 are the
\* nested object and the root of `initial`, which the program keeps; objects 3 and
\* 4 are their deep copy, the document.
createStore(a, x) ==
  [objs |-> <<[frozen |-> FALSE, n |-> x, child |-> 0], [frozen |-> FALSE, n |-> a, child |-> 1],
              [frozen |-> FALSE, n |-> x, child |-> 0], [frozen |-> FALSE, n |-> a, child |-> 3]>>,
   state |-> 4, modified |-> TRUE, prevState |-> 0,
   handed |-> {}, expected |-> [n |-> a, c |-> x], denied |-> FALSE]

\* the value of the object at r, nested object included
deepValue(objs, r) ==
  [n |-> objs[r].n, c |-> IF objs[r].child = 0 THEN -1 ELSE objs[objs[r].child].n]

\* a copy that freezes the root and keeps the nested object of the original
cloneFrozenShallow(objs, r) ==
  Append(objs, [frozen |-> TRUE, n |-> objs[r].n, child |-> objs[r].child])

\* cloneFrozen: the heap with a frozen copy of the object at r, nested object
\* first; the copy of r is the last object
cloneFrozen(objs, r) ==
  IF objs[r].child = 0
    THEN Append(objs, [frozen |-> TRUE, n |-> objs[r].n, child |-> 0])
    ELSE Append(Append(objs, [frozen |-> TRUE, n |-> objs[objs[r].child].n, child |-> 0]),
                [frozen |-> TRUE, n |-> objs[r].n, child |-> Len(objs) + 1])

\* no function is being checked
NoCall == [doc |-> InitialDoc, exprs |-> <<>>, condition |-> EmptyCondition, fields |-> <<>>,
           after |-> InitialDoc, done |-> FALSE]

\* what a call returned: keys are the keys of an UpdateResult
NoRet ==
  [call |-> "none", modified |-> FALSE, keys |-> {}, sel |-> 0, threw |-> FALSE, reused |-> FALSE]

NoHist ==
  [active |-> FALSE, preDoc |-> InitialDoc, preSels |-> <<>>, log |-> <<>>,
   quiet |-> TRUE, nothrow |-> TRUE]

NoFrame ==
  [kind |-> "none", pc |-> "none", fields |-> <<>>, si |-> 0, sel |-> 0, lis |-> 0, li |-> 0,
   size |-> 0, val |-> Undefined, notifyCount |-> 0, invoked |-> 0, seen |-> <<>>, threw |-> {}]

UpdateFrameFromSecond(fields) == [NoFrame EXCEPT !.kind = "update", !.pc = "signal", !.fields = fields, !.si = 2]
\* Store.update after its mutation: about to run the signal of selector number si
UpdateFrame(fields) == [NoFrame EXCEPT !.kind = "update", !.pc = "signal", !.fields = fields, !.si = 1]

\* Selector.subscribe running the listener it was given (runImmediately)
SubFrame(s, l, val) == [NoFrame EXCEPT !.kind = "sub", !.pc = "listener", !.sel = s, !.lis = l, !.val = val]

Top == stack[Len(stack)]
Pop == SubSeq(stack, 1, Len(stack) - 1)
SetTop(f) == [stack EXCEPT ![Len(stack)] = f]

\* a call can be made by the program, or by a listener that is running
CanCall == IF stack = <<>> THEN TRUE ELSE Top.pc = "listener"

\* the calls of one behaviour are counted, those made by listeners apart
CanSpend ==
  /\ budget.calls < MaxCalls
  /\ IF stack = <<>> THEN TRUE ELSE budget.nested < MaxNested

Spend ==
  [calls |-> budget.calls + 1,
   nested |-> IF stack = <<>> THEN budget.nested ELSE budget.nested + 1]

\* a read made by the program is not counted: it only fills a cache
CanRead == IF stack = <<>> THEN TRUE ELSE CanSpend
SpendRead == IF stack = <<>> THEN budget ELSE Spend

\* the record of the outermost call: a new one for a new outermost call; a call
\* made by a listener is noted in the record of the call that runs the listener
HistOnCall == IF stack = <<>> THEN NoHist ELSE [hist EXCEPT !.quiet = FALSE]

\* the record is dropped when the outermost call returns
HistOnReturn == IF Pop = <<>> THEN NoHist ELSE hist

\* deleted entries are dropped once no call is running
Settle(ss, stk) ==
  IF stk = <<>> THEN [i \in DOMAIN ss |-> [ss[i] EXCEPT !.listeners = setCompact(@)]] ELSE ss

MinFromEnd(S) == CHOOSE x \in S : \A y \in S : x >= y
Min(S) == CHOOSE x \in S : \A y \in S : x <= y

\* ------------------------------------------------------------------ Store.select

selectorsHasNever(sl, hash) == FALSE

\* this.selectors.has(hash)
selectorsHas(sl, hash) == \E i \in DOMAIN sl : sl[i].hash = hash

\* this.selectors.get(hash)
selectorsGet(sl, hash) == sl[CHOOSE i \in DOMAIN sl : sl[i].hash = hash].sel

\* a projection value select accepts: an object, an array, true, or 1
isProjectExpression(v) ==
  \/ v.t = "num" /\ v.n = 1
  \/ v.t = "bool" /\ v.b
  \/ v.t = "obj"
  \/ v.t = "arr"

selectValidAlways(projection) == TRUE

\* the two asserts of select hold for every value of the projection
selectValid(projection) ==
  \A i \in DOMAIN projection.kv :
    LET v == projection.kv[i].v
    IN /\ ~(v.t = "num" /\ v.n = 0)
       /\ ~(v.t = "bool" /\ ~v.b)
       /\ isProjectExpression(v)
Select(projection, condition) ==
  /\ stack = <<>>
  /\ LET hash == <<projection, condition>>
     IN IF ~selectValid(projection)
          THEN \* an assert throws
               /\ ret' = [NoRet EXCEPT !.call = "select", !.threw = TRUE]
               /\ UNCHANGED <<selectors, signals, sels>>
          ELSE IF selectorsHas(selectors, hash)
          THEN /\ ret' = [NoRet EXCEPT !.call = "select", !.sel = selectorsGet(selectors, hash),
                                       !.reused = TRUE]
               /\ UNCHANGED <<selectors, signals, sels>>
          ELSE /\ sels' = Append(sels, NewSelector(projection, condition))
               /\ signals' = Append(signals, expectedPaths(projection, condition))
               /\ selectors' = Append(selectors, [hash |-> hash, sel |-> Len(sels) + 1])
               /\ ret' = [NoRet EXCEPT !.call = "select", !.sel = Len(sels) + 1]
  /\ hist' = HistOnCall
  /\ UNCHANGED <<doc, modified, prevState, stack, budget, sigChanged, sigExpected, sigResult, snap, call>>

\* ------------------------------------------------------------------ Store.getState, Selector.getState

StoreGetState ==
  /\ CanCall
  /\ CanRead
  /\ budget' = SpendRead
  /\ LET g == storeGetState(FullProjection, EmptyCondition, doc, modified, prevState)
     IN /\ modified' = g.modified
        /\ prevState' = g.prevState
        /\ ret' = [NoRet EXCEPT !.call = "getState"]
  /\ hist' = HistOnCall
  /\ UNCHANGED <<doc, selectors, signals, sels, stack, sigChanged, sigExpected, sigResult, snap, call>>

SelectorGetState(s) ==
  /\ CanCall
  /\ s \in DOMAIN sels
  /\ CanRead
  /\ budget' = SpendRead
  /\ LET g == selectorGetState(sels[s], doc, modified, prevState)
     IN /\ modified' = g.modified
        /\ prevState' = g.prevState
        /\ sels' = [sels EXCEPT ![s] = [@ EXCEPT !.cached = TRUE, !.value = g.value]]
        /\ ret' = [NoRet EXCEPT !.call = "selector.getState", !.sel = s]
  /\ hist' = HistOnCall
  /\ UNCHANGED <<doc, selectors, signals, stack, sigChanged, sigExpected, sigResult, snap, call>>

\* ------------------------------------------------------------------ Selector.subscribe

\* the unsub closure of subscribe
unsubKeep(o, l) == o
unsub(o, l) ==
  [o EXCEPT !.onceOnly = @ \ {l}, !.listeners = setDelete(@, l), !.runs = [@ EXCEPT ![l] = 0]]

\* a listener is being invoked: a once-only registration counts its runs
invoke(o, l) ==
  IF l \in o.onceOnly THEN [o EXCEPT !.runs = [@ EXCEPT ![l] = IF @ < 2 THEN @ + 1 ELSE @]] ELSE o

Subscribe(s, l, runOnce, runImmediately) ==
  /\ CanCall
  /\ s \in DOMAIN sels
  /\ CanSpend
  /\ budget' = Spend
  /\ UNCHANGED <<doc, selectors, signals, sigChanged, sigExpected, sigResult, snap, call>>
  /\ IF setHas(sels[s].listeners, l)
       THEN \* throws "Listener already subscribed."
            /\ ret' = [NoRet EXCEPT !.call = "subscribe", !.sel = s, !.threw = TRUE]
            /\ hist' = HistOnCall
            /\ UNCHANGED <<sels, stack, modified, prevState>>
       ELSE LET o1 == [sels[s] EXCEPT !.onceOnly = IF runOnce THEN @ \cup {l} ELSE @,
                                      !.listeners = setAdd(@, l),
                                      !.runs = [@ EXCEPT ![l] = 0]]
                g == selectorGetState(o1, doc, modified, prevState)
                o2 == [o1 EXCEPT !.cached = TRUE, !.value = g.value]
            IN IF ~runImmediately
                 THEN /\ sels' = [sels EXCEPT ![s] = o1]
                      /\ ret' = [NoRet EXCEPT !.call = "subscribe", !.sel = s]
                      /\ hist' = HistOnCall
                      /\ UNCHANGED <<stack, modified, prevState>>
                 ELSE /\ modified' = g.modified
                      /\ prevState' = g.prevState
                      /\ IF g.value # Undefined
                           THEN /\ Len(stack) < MaxDepth
                                /\ sels' = [sels EXCEPT ![s] = invoke(o2, l)]
                                /\ stack' = Append(stack, SubFrame(s, l, g.value))
                                /\ hist' = [HistOnCall EXCEPT
                                              !.log = Append(@, [s |-> s, l |-> l, v |-> g.value])]
                                /\ ret' = IF stack = <<>> THEN NoRet ELSE ret
                           ELSE /\ sels' = [sels EXCEPT ![s] = o2]
                                /\ ret' = [NoRet EXCEPT !.call = "subscribe", !.sel = s]
                                /\ hist' = HistOnCall
                                /\ UNCHANGED stack

\* the listener of a runImmediately subscription returns: finally { if onceOnly.has unsub() }
ImmediateReturn ==
  /\ stack # <<>>
  /\ Top.kind = "sub"
  /\ LET s == Top.sel
         l == Top.lis
         o == IF l \in sels[s].onceOnly THEN unsub(sels[s], l) ELSE sels[s]
     IN sels' = Settle([sels EXCEPT ![s] = o], Pop)
  /\ stack' = Pop
  /\ ret' = [NoRet EXCEPT !.call = "subscribe", !.sel = Top.sel]
  /\ hist' = HistOnReturn
  /\ UNCHANGED <<doc, modified, prevState, selectors, signals, budget,
                 sigChanged, sigExpected, sigResult, snap, call>>

\* the listener of a runImmediately subscription throws: unsub(), and the error is thrown on
ImmediateThrow ==
  /\ stack # <<>>
  /\ Top.kind = "sub"
  /\ sels' = Settle([sels EXCEPT ![Top.sel] = unsub(@, Top.lis)], Pop)
  /\ stack' = Pop
  /\ ret' = [NoRet EXCEPT !.call = "subscribe", !.sel = Top.sel, !.threw = TRUE]
  /\ hist' = [HistOnReturn EXCEPT !.nothrow = (Pop = <<>>)]
  /\ UNCHANGED <<doc, modified, prevState, selectors, signals, budget,
                 sigChanged, sigExpected, sigResult, snap, call>>

\* the Unsubscribe function subscribe returned for (s, l)
Unsubscribe(s, l) ==
  /\ CanCall
  /\ s \in DOMAIN sels
  /\ l \in setMembers(sels[s].listeners) \cup sels[s].onceOnly
  /\ CanSpend
  /\ budget' = Spend
  /\ sels' = Settle([sels EXCEPT ![s] = unsub(@, l)], stack)
  /\ ret' = [NoRet EXCEPT !.call = "unsubscribe", !.sel = s]
  /\ hist' = HistOnCall
  /\ UNCHANGED <<doc, modified, prevState, selectors, signals, stack,
                 sigChanged, sigExpected, sigResult, snap, call>>

\* ------------------------------------------------------------------ Store.update

updateUnchangedNever(fields) == FALSE

\* if (!fields.length) return { modified: false }
updateUnchanged(fields) == Len(fields) = 0

modifiedAfterUpdateStale(mod) == mod

\* this.modified = true
modifiedAfterUpdate(mod) == TRUE

Update(exprs, condition) ==
  /\ CanCall
  /\ CanSpend
  /\ budget' = Spend
  /\ LET m == mutateAll(doc, exprs, condition)
         fields == changedFields(m.emitted)
     IN /\ doc' = m.doc
        /\ IF updateUnchanged(fields)
             THEN /\ ret' = [NoRet EXCEPT !.call = "update", !.keys = {"modified"}]
                  /\ hist' = HistOnCall
                  /\ UNCHANGED <<modified, stack>>
             ELSE /\ Len(stack) < MaxDepth
                  /\ modified' = modifiedAfterUpdate(modified)
                  /\ stack' = Append(stack, UpdateFrame(fields))
                  /\ hist' = IF stack = <<>>
                               THEN [NoHist EXCEPT !.active = TRUE, !.preDoc = doc, !.preSels = sels]
                               ELSE [hist EXCEPT !.quiet = FALSE]
                  /\ ret' = IF stack = <<>> THEN NoRet ELSE ret
  /\ UNCHANGED <<prevState, selectors, signals, sels, sigChanged, sigExpected, sigResult, snap, call>>

previousValueNone(o) == NONE

\* const prev = this.cached ? this.getState() : NONE
previousValue(o) == IF o.cached THEN o.value ELSE NONE

notifyAllSkipsNever(o) == FALSE

\* if (!this.listeners.size) return
notifyAllSkips(o) == setSize(o.listeners) = 0

\* the update has gone through every selector
AtReturn ==
  IF stack = <<>> THEN FALSE
  ELSE Top.kind = "update" /\ Top.pc = "signal" /\ Top.si > Len(selectors)

\* one turn of the loop over the selectors: the signal of selector number si, with
\* notifyAll up to its loop over the listeners
SignalStep ==
  /\ stack # <<>>
  /\ Top.kind = "update"
  /\ Top.pc = "signal"
  /\ Top.si <= Len(selectors)
  /\ UNCHANGED <<doc, selectors, signals, budget, ret, hist, sigChanged, sigExpected, sigResult, snap, call>>
  /\ LET s == selectors[Top.si].sel
         o == sels[s]
         size == setSize(o.listeners)
         counted == [Top EXCEPT !.si = @ + 1, !.notifyCount = @ + size]
     IN IF ~signalNotify(Top.fields, signals[s])
          THEN /\ stack' = SetTop([Top EXCEPT !.si = @ + 1])
               /\ UNCHANGED <<sels, modified, prevState>>
          ELSE IF notifyAllSkips(o)
          THEN /\ stack' = SetTop(counted)
               /\ UNCHANGED <<sels, modified, prevState>>
          ELSE LET prev == previousValue(o)
                   g == storeGetState(o.projection, o.query, doc, modified, prevState)
               IN /\ sels' = [sels EXCEPT ![s] = [o EXCEPT !.cached = TRUE, !.value = g.value]]
                  /\ modified' = g.modified
                  /\ prevState' = g.prevState
                  /\ IF prev = g.value
                       THEN stack' = SetTop(counted)
                       ELSE stack' = SetTop([Top EXCEPT !.pc = "loop", !.sel = s, !.li = 0,
                                                        !.size = size, !.val = g.value,
                                                        !.seen = <<>>, !.threw = {}])

\* return { modified: true, fields, notifyCount }
UpdateReturn ==
  /\ AtReturn
  /\ stack' = Pop
  /\ sels' = Settle(sels, Pop)
  /\ ret' = [NoRet EXCEPT !.call = "update", !.modified = TRUE,
                          !.keys = {"modified", "fields", "notifyCount"}]
  /\ hist' = HistOnReturn
  /\ UNCHANGED <<doc, modified, prevState, selectors, signals, budget,
                 sigChanged, sigExpected, sigResult, snap, call>>

\* for (const f of this.listeners): the next entry, or the end of notifyAll
LoopStep ==
  /\ stack # <<>>
  /\ Top.kind = "update"
  /\ Top.pc = "loop"
  /\ UNCHANGED <<doc, modified, prevState, selectors, signals, budget, ret,
                 sigChanged, sigExpected, sigResult, snap, call>>
  /\ LET entries == sels[Top.sel].listeners
         nexts == {i \in DOMAIN entries : i > Top.li /\ entries[i] # 0}
     IN IF nexts = {}
          THEN /\ stack' = SetTop([UpdateFrame(Top.fields) EXCEPT
                                       !.si = Top.si + 1,
                                       !.notifyCount = Top.notifyCount + Top.size,
                                       !.invoked = Top.invoked])
               /\ UNCHANGED <<sels, hist>>
          ELSE LET j == Min(nexts)
                   f == entries[j]
               IN /\ stack' = SetTop([Top EXCEPT !.pc = "listener", !.li = j, !.lis = f,
                                                 !.invoked = @ + 1, !.seen = Append(@, f)])
                  /\ sels' = [sels EXCEPT ![Top.sel] = invoke(@, f)]
                  /\ hist' = [hist EXCEPT
                                !.log = Append(@, [s |-> Top.sel, l |-> f, v |-> Top.val])]

\* finally { if (this.onceOnly.delete(f)) this.listeners.delete(f) }
onceCleanup(o, f) == IF f \in o.onceOnly THEN unsub(o, f) ELSE o

\* the listener notifyAll invoked returns
ListenerReturn ==
  /\ stack # <<>>
  /\ Top.kind = "update"
  /\ Top.pc = "listener"
  /\ sels' = [sels EXCEPT ![Top.sel] = onceCleanup(@, Top.lis)]
  /\ stack' = SetTop([Top EXCEPT !.pc = "loop"])
  /\ UNCHANGED <<doc, modified, prevState, selectors, signals, budget, ret, hist,
                 sigChanged, sigExpected, sigResult, snap, call>>

onErrorKeep(o, f) == o

\* catch { this.listeners.delete(f) }
onError(o, f) == [o EXCEPT !.listeners = setDelete(@, f), !.runs = [@ EXCEPT ![f] = 0]]

\* the listener notifyAll invoked throws
ListenerThrow ==
  /\ stack # <<>>
  /\ Top.kind = "update"
  /\ Top.pc = "listener"
  /\ sels' = [sels EXCEPT ![Top.sel] = onceCleanup(onError(@, Top.lis), Top.lis)]
  /\ stack' = SetTop([Top EXCEPT !.pc = "loop", !.threw = @ \cup {Top.lis}])
  /\ hist' = [hist EXCEPT !.nothrow = FALSE]
  /\ UNCHANGED <<doc, modified, prevState, selectors, signals, budget, ret,
                 sigChanged, sigExpected, sigResult, snap, call>>

\* ------------------------------------------------------------------ the program

Init ==
  /\ doc = InitialDoc
  /\ modified = TRUE
  /\ prevState = Undefined
  /\ selectors = <<>>
  /\ signals = <<>>
  /\ sels = <<>>
  /\ stack = <<>>
  /\ ret = NoRet
  /\ budget = [calls |-> 0, nested |-> 0]
  /\ hist = NoHist
  /\ sigChanged = <<>>
  /\ sigExpected = {}
  /\ sigResult = "none"
  /\ snap = createStore(0, 0)
  /\ call = NoCall

Next ==
  \/ \E i \in SelectInputs : Select(i[1], i[2])
  \/ StoreGetState
  \/ \E s \in DOMAIN sels : SelectorGetState(s)
  \/ \E s \in DOMAIN sels, l \in Listeners, runOnce \in BOOLEAN, runImmediately \in BOOLEAN :
       Subscribe(s, l, runOnce, runImmediately)
  \/ ImmediateReturn
  \/ ImmediateThrow
  \/ \E s \in DOMAIN sels, l \in Listeners : Unsubscribe(s, l)
  \/ \E exprs \in UpdateInputs : Update(exprs, EmptyCondition)
  \/ SignalStep
  \/ UpdateReturn
  \/ LoopStep
  \/ ListenerReturn
  \/ ListenerThrow

Spec == Init /\ [][Next]_vars

\* ------------------------------------------------------------------ two listeners on one selector

\* the store after select({}, {}) and two subscribe calls on the selector it
\* returned, the second of them once-only or not: the program goes on from
\* there with the calls that are left
InitNested ==
  /\ doc = InitialDoc
  /\ modified = TRUE
  /\ prevState = Undefined
  /\ selectors = <<[hash |-> <<FullProjection, EmptyCondition>>, sel |-> 1]>>
  /\ signals = <<expectedPaths(FullProjection, EmptyCondition)>>
  /\ \E once \in {{}, {NumListeners}} :
       sels = <<[NewSelector(FullProjection, EmptyCondition) EXCEPT
                   !.listeners = [l \in Listeners |-> l], !.onceOnly = once]>>
  /\ stack = <<>>
  /\ ret = [NoRet EXCEPT !.call = "subscribe", !.sel = 1]
  /\ budget = [calls |-> MaxCalls - 2, nested |-> 0]
  /\ hist = NoHist
  /\ sigChanged = <<>>
  /\ sigExpected = {}
  /\ sigResult = "none"
  /\ snap = createStore(0, 0)
  /\ call = NoCall

SpecNested == InitNested /\ [][Next]_vars
\* ------------------------------------------------------------------ the signal on its own

\* the names a path segment is drawn from: one is a string prefix of the other
SegNames == {<<"a">>, <<"a", "b">>}

\* the paths of at most n segments
RECURSIVE PathsUpTo(_)
PathsUpTo(n) ==
  IF n = 1 THEN SegNames
  ELSE PathsUpTo(n - 1) \cup {p \o <<".">> \o g : p \in PathsUpTo(n - 1), g \in SegNames}

SigPaths == PathsUpTo(MaxSegs)

\* changed lists as Store.update hands them to a signal: not empty, no duplicates, sorted
ChangedLists ==
  {SortStrs(S) : S \in {T \in SUBSET SigPaths : T # {} /\ Cardinality(T) <= MaxPaths}}

ExpectedSets == {T \in SUBSET SigPaths : Cardinality(T) <= MaxPaths}

InitSignal ==
  /\ doc = InitialDoc
  /\ modified = TRUE
  /\ prevState = Undefined
  /\ selectors = <<>>
  /\ signals = <<>>
  /\ sels = <<>>
  /\ stack = <<>>
  /\ ret = NoRet
  /\ budget = [calls |-> 0, nested |-> 0]
  /\ hist = NoHist
  /\ sigChanged \in ChangedLists
  /\ sigExpected \in ExpectedSets
  /\ sigResult = "none"
  /\ snap = createStore(0, 0)
  /\ call = NoCall

\* the signal of a selector with the expected set is run on the changed list
SignalCall ==
  /\ sigResult = "none"
  /\ sigResult' = IF signalNotify(sigChanged, sigExpected) THEN "notify" ELSE "skip"
  /\ UNCHANGED <<doc, modified, prevState, selectors, signals, sels, stack, ret, budget, hist,
                 sigChanged, sigExpected, snap, call>>

NextSignal == SignalCall

SpecSignal == InitSignal /\ [][NextSignal]_vars

\* ------------------------------------------------------------------ snapshots on their own

\* the store is made from an object of the program
InitSnapshot ==
  /\ doc = InitialDoc
  /\ modified = TRUE
  /\ prevState = Undefined
  /\ selectors = <<>>
  /\ signals = <<>>
  /\ sels = <<>>
  /\ stack = <<>>
  /\ ret = NoRet
  /\ budget = [calls |-> 0, nested |-> 0]
  /\ hist = NoHist
  /\ sigChanged = <<>>
  /\ sigExpected = {}
  /\ sigResult = "none"
  /\ snap \in {createStore(a, x) : a \in FieldValues("b"), x \in FieldValues("b")}
  /\ call = NoCall

\* Store.getState hands out a value: the cached full state, or a frozen copy of
\* the document (a projection that keeps every field, when the cache is not used)
SnapGetState(cacheEnabled) ==
  /\ IF cacheEnabled /\ ~snap.modified
       THEN snap' = [snap EXCEPT !.handed = @ \cup {[root |-> snap.prevState,
                                                     value |-> deepValue(snap.objs, snap.prevState)]}]
       ELSE LET objs == cloneFrozen(snap.objs, snap.state)
                value == Len(objs)
            IN /\ value <= MaxObjs
               /\ snap' = [snap EXCEPT !.objs = objs,
                                       !.modified = IF cacheEnabled THEN FALSE ELSE @,
                                       !.prevState = IF cacheEnabled THEN value ELSE @,
                                       !.handed = @ \cup {[root |-> value,
                                                           value |-> deepValue(objs, value)]}]
  /\ UNCHANGED <<doc, modified, prevState, selectors, signals, sels, stack, ret, budget, hist,
                 sigChanged, sigExpected, sigResult, call>>

\* Store.update with {$set: {n: v}} (nested FALSE) or {$set: {"c.n": v}} (nested
\* TRUE): the object of the document is written in place
SnapUpdate(nested, v) ==
  /\ LET o == IF nested THEN snap.objs[snap.state].child ELSE snap.state
     IN /\ snap.objs[o].n # v
        /\ snap' = [snap EXCEPT !.objs = [@ EXCEPT ![o] = [@ EXCEPT !.n = v]],
                                !.modified = TRUE,
                                !.expected = IF nested THEN [@ EXCEPT !.c = v]
                                             ELSE [@ EXCEPT !.n = v]]
  /\ UNCHANGED <<doc, modified, prevState, selectors, signals, sels, stack, ret, budget, hist,
                 sigChanged, sigExpected, sigResult, call>>

\* the program assigns to a field of an object it holds: the object it made the
\* store from, or a value the store handed out, or the nested object of one of
\* them; the assignment to a frozen object fails
ExternalWrite(o, v) ==
  /\ o \in {1, 2} \cup UNION {{h.root, snap.objs[h.root].child} : h \in snap.handed}
  /\ IF snap.objs[o].frozen
       THEN snap' = [snap EXCEPT !.denied = TRUE]
       ELSE snap' = [snap EXCEPT !.objs = [@ EXCEPT ![o] = [@ EXCEPT !.n = v]]]
  /\ UNCHANGED <<doc, modified, prevState, selectors, signals, sels, stack, ret, budget, hist,
                 sigChanged, sigExpected, sigResult, call>>

NextSnapshot ==
  \/ \E cacheEnabled \in BOOLEAN : SnapGetState(cacheEnabled)
  \/ \E nested \in BOOLEAN, v \in FieldValues("b") : SnapUpdate(nested, v)
  \/ \E o \in 1..MaxObjs, v \in FieldValues("b") : ExternalWrite(o, v)

SpecSnapshot == InitSnapshot /\ [][NextSnapshot]_vars

\* ------------------------------------------------------------------ the fields list on its own

\* an update is called on a document with a list of expressions and a condition
InitFields ==
  /\ doc = InitialDoc
  /\ modified = TRUE
  /\ prevState = Undefined
  /\ selectors = <<>>
  /\ signals = <<>>
  /\ sels = <<>>
  /\ stack = <<>>
  /\ ret = NoRet
  /\ budget = [calls |-> 0, nested |-> 0]
  /\ hist = NoHist
  /\ sigChanged = <<>>
  /\ sigExpected = {}
  /\ sigResult = "none"
  /\ snap = createStore(0, 0)
  /\ call \in {[NoCall EXCEPT !.doc = d, !.exprs = e, !.condition = c] :
                 d \in {[a |-> x, b |-> y] : x \in FieldValues("a"), y \in FieldValues("b")},
                 e \in FieldsInputs, c \in UpdateConditions}

\* const fields = Array.from(new Set(...flatMap(mutate))); fields.sort(): the
\* fields list and the document the mutations leave
FieldsCall ==
  /\ ~call.done
  /\ LET m == mutateAll(call.doc, call.exprs, call.condition)
     IN call' = [call EXCEPT !.fields = changedFields(m.emitted), !.after = m.doc,
                             !.done = TRUE]
  /\ UNCHANGED <<doc, modified, prevState, selectors, signals, sels, stack, ret, budget, hist,
                 sigChanged, sigExpected, sigResult, snap>>

SpecFields == InitFields /\ [][FieldsCall]_vars

\* ------------------------------------------------------------------ the dependent paths on their own

\* the expressions getDependentPaths is tried on: trees of up to MaxTree levels of
\* objects and arrays over the leaves.  "$$v" is the only string with a "v", and
\* "l" occurs only inside the value of a $literal key.
PathsInputs ==
  LET leaves == {Str(<<"$", "$", "v">>), Str(<<"$", "x">>), Str(<<"s">>),
                 Num(0), Num(1), Num(2), Bool(TRUE), Bool(FALSE), Null}
      lits == {Obj(<<KV(K_literal, t)>>) :
                 t \in {Str(<<"$", "l">>), Arr(<<Str(<<"$", "l">>)>>),
                        Obj(<<KV(<<"l">>, Str(<<"$", "l">>))>>), Obj(<<KV(<<"l">>, Num(1))>>)}}
      keys == {<<"a">>, <<"i", "f">>, <<"i", "n">>, K_cond, K_map, K_gt, K_slice,
               <<"$", "s", "e", "t">>}
      grow(S) == S \cup {Arr(<<x>>) : x \in S} \cup {Obj(<<KV(k, x)>>) : k \in keys, x \in S}
      RECURSIVE level(_)
      level(n) == IF n = 0 THEN leaves \cup lits ELSE grow(level(n - 1))
      \* operators with keyed arguments, at the top, under a key, under two keys
      slots == {Str(<<"$", "x">>), Str(<<"$", "$", "v">>), Str(<<"s">>), Num(1), Num(0),
                Obj(<<KV(K_gt, Arr(<<Str(<<"$", "y">>), Num(1)>>))>>)}
      as == KV(<<"a", "s">>, Str(<<"v">>))
      keyed == {Obj(<<KV(K_cond, Obj(<<KV(<<"i", "f">>, x), KV(<<"t", "h", "e", "n">>, y),
                                       KV(<<"e", "l", "s", "e">>, z)>>))>>) :
                  x \in slots, y \in slots, z \in slots}
               \cup {Obj(<<KV(K_cond, Arr(<<x, y, z>>))>>) : x \in slots, y \in slots, z \in slots}
               \cup {Obj(<<KV(K_switch,
                              Obj(<<KV(<<"b", "r", "a", "n", "c", "h", "e", "s">>,
                                       Arr(<<Obj(<<KV(<<"c", "a", "s", "e">>, x),
                                                   KV(<<"t", "h", "e", "n">>, y)>>)>>)),
                                    KV(<<"d", "e", "f", "a", "u", "l", "t">>, z)>>))>>) :
                        x \in slots, y \in slots, z \in slots}
               \cup {Obj(<<KV(K_filter, Obj(<<KV(<<"i", "n", "p", "u", "t">>, x), as,
                                              KV(<<"c", "o", "n", "d">>, y),
                                              KV(<<"l", "i", "m", "i", "t">>, z)>>))>>) :
                        x \in slots, y \in slots, z \in slots}
               \cup {Obj(<<KV(K_map, Obj(<<KV(<<"i", "n", "p", "u", "t">>, x), as,
                                           KV(<<"i", "n">>, y)>>))>>) :
                        x \in slots, y \in slots}
  IN level(MaxTree)
       \cup keyed
       \cup {Obj(<<KV(<<"a">>, e)>>) : e \in keyed}
       \cup {Obj(<<KV(<<"a">>, Obj(<<KV(<<"b">>, e)>>))>>) : e \in keyed}
       \cup {Obj(<<KV(<<"a">>, x), KV(<<"b">>, y)>>) : x \in leaves, y \in leaves \cup lits}
       \cup {Arr(<<x, y>>) : x \in {Str(<<"$", "x">>), Str(<<"$", "$", "v">>)}, y \in leaves \cup lits}

\* getDependentPaths is called on an expression
InitPaths ==
  /\ doc = InitialDoc
  /\ modified = TRUE
  /\ prevState = Undefined
  /\ selectors = <<>>
  /\ signals = <<>>
  /\ sels = <<>>
  /\ stack = <<>>
  /\ ret = NoRet
  /\ budget = [calls |-> 0, nested |-> 0]
  /\ hist = NoHist
  /\ sigChanged = <<>>
  /\ sigExpected = {}
  /\ sigResult = "none"
  /\ snap = createStore(0, 0)
  /\ call \in {[expr |-> e, includeRootFields |-> r, paths |-> {}, done |-> FALSE] :
                 e \in PathsInputs, r \in BOOLEAN}

\* the set of paths it returns
PathsCall ==
  /\ ~call.done
  /\ call' = [call EXCEPT !.paths = getDependentPaths(call.expr, call.includeRootFields, <<>>),
                          !.done = TRUE]
  /\ UNCHANGED <<doc, modified, prevState, selectors, signals, sels, stack, ret, budget, hist,
                 sigChanged, sigExpected, sigResult, snap>>

SpecPaths == InitPaths /\ [][PathsCall]_vars

\* ------------------------------------------------------------------ one round of notifyAll on its own

\* notifyAll is in its loop over the listeners of a selector whose value has
\* changed; the listeners were subscribed in some order, some of them once-only,
\* and no registration has ended yet.  ended holds the listeners of which a
\* registration has ended by an Unsubscribe call, by the removal after a
\* once-only run or by the removal after a throw (its Unsubscribe function is
\* still around), last the last call a listener made
InitRound ==
  /\ doc = InitialDoc
  /\ modified = TRUE
  /\ prevState = Undefined
  /\ selectors = <<>>
  /\ signals = <<>>
  /\ sels = <<>>
  /\ stack = <<>>
  /\ ret = NoRet
  /\ budget = [calls |-> 0, nested |-> 0]
  /\ hist = NoHist
  /\ sigChanged = <<>>
  /\ sigExpected = {}
  /\ sigResult = "none"
  /\ snap = createStore(0, 0)
  /\ call \in {[o |-> [NewSelector(FullProjection, EmptyCondition) EXCEPT
                         !.listeners = e, !.onceOnly = once],
                pc |-> "loop", li |-> 0, lis |-> 0, seen |-> <<>>, ops |-> 0,
                ended |-> {}, last |-> [op |-> "none", l |-> 0, stale |-> FALSE]] :
                 e \in {<<1>>, <<2>>, <<1, 2>>, <<2, 1>>}, once \in SUBSET Listeners}
  /\ call.o.onceOnly \subseteq Range(call.o.listeners)

\* for (const f of this.listeners) { try { f(val) ...: the next entry of the set
\* is invoked, or the loop ends
RoundInvoke ==
  /\ call.pc = "loop"
  /\ LET entries == call.o.listeners
         nexts == {i \in DOMAIN entries : i > call.li /\ entries[i] # 0}
     IN IF nexts = {} THEN call' = [call EXCEPT !.pc = "done"]
        ELSE call' = [call EXCEPT !.pc = "listener", !.li = Min(nexts),
                                  !.lis = entries[Min(nexts)],
                                  !.seen = Append(@, entries[Min(nexts)]),
                                  !.o = invoke(@, entries[Min(nexts)])]
  /\ UNCHANGED <<doc, modified, prevState, selectors, signals, sels, stack, ret, budget, hist,
                 sigChanged, sigExpected, sigResult, snap>>

\* the running listener calls an Unsubscribe function of listener l: the one of
\* its running registration, or (stale) one of a registration that has ended
RoundUnsubscribe(l, stale) ==
  /\ call.pc = "listener"
  /\ call.ops < MaxOps
  /\ IF stale THEN l \in call.ended ELSE setHas(call.o.listeners, l)
  /\ call' = [call EXCEPT !.o = unsub(@, l), !.ops = @ + 1, !.ended = @ \cup {l},
                          !.last = [op |-> "unsub", l |-> l, stale |-> stale]]
  /\ UNCHANGED <<doc, modified, prevState, selectors, signals, sels, stack, ret, budget, hist,
                 sigChanged, sigExpected, sigResult, snap>>

\* the running listener calls subscribe(l, {runOnce}) on the selector; the error
\* of a duplicate subscription is not caught by the listener
RoundSubscribe(l, runOnce) ==
  /\ call.pc = "listener"
  /\ call.ops < MaxOps
  /\ IF setHas(call.o.listeners, l)
       THEN call' = [call EXCEPT !.o = onceCleanup(onError(@, call.lis), call.lis),
                                 !.pc = "loop", !.ops = @ + 1, !.ended = @ \cup {call.lis},
                                 !.last = [op |-> "subscribe", l |-> l, stale |-> FALSE]]
       ELSE call' = [call EXCEPT !.o = [@ EXCEPT !.onceOnly = IF runOnce THEN @ \cup {l} ELSE @,
                                                 !.listeners = setAdd(@, l),
                                                 !.runs = [@ EXCEPT ![l] = 0]],
                                 !.ops = @ + 1,
                                 !.last = [op |-> "subscribe", l |-> l, stale |-> FALSE]]
  /\ UNCHANGED <<doc, modified, prevState, selectors, signals, sels, stack, ret, budget, hist,
                 sigChanged, sigExpected, sigResult, snap>>

\* the running listener calls removeAll() on the selector: this.listeners.clear()
RoundRemoveAll ==
  /\ call.pc = "listener"
  /\ call.ops < MaxOps
  /\ call' = [call EXCEPT !.o = [@ EXCEPT !.listeners = [i \in DOMAIN @ |-> 0]],
                          !.ops = @ + 1,
                          !.last = [op |-> "removeAll", l |-> 0, stale |-> FALSE]]
  /\ UNCHANGED <<doc, modified, prevState, selectors, signals, sels, stack, ret, budget, hist,
                 sigChanged, sigExpected, sigResult, snap>>

\* the running listener returns or throws: catch { listeners.delete(f) } finally
\* { if (onceOnly.delete(f)) listeners.delete(f) }
RoundEnd(threw) ==
  /\ call.pc = "listener"
  /\ LET o == onceCleanup(IF threw THEN onError(call.o, call.lis) ELSE call.o, call.lis)
     IN call' = [call EXCEPT !.o = o, !.pc = "loop",
                             !.ended = IF setHas(o.listeners, call.lis) THEN @ ELSE @ \cup {call.lis},
                             !.last = [op |-> "none", l |-> 0, stale |-> FALSE]]
  /\ UNCHANGED <<doc, modified, prevState, selectors, signals, sels, stack, ret, budget, hist,
                 sigChanged, sigExpected, sigResult, snap>>

NextRound ==
  \/ RoundInvoke
  \/ \E l \in Listeners, stale \in BOOLEAN : RoundUnsubscribe(l, stale)
  \/ \E l \in Listeners, runOnce \in BOOLEAN : RoundSubscribe(l, runOnce)
  \/ RoundRemoveAll
  \/ \E threw \in BOOLEAN : RoundEnd(threw)

SpecRound == InitRound /\ [][NextRound]_vars
\* ------------------------------------------------------------------ operators under array filters

\* what arithmetic on something that is not a number gives
NaN == [t |-> "nan"]

\* tokenizePath: the chain of nodes of a selector (child <<>>: no child), the
\* identifiers it names, and whether the identifier check failed
RECURSIVE tokenizePath(_)
tokenizePath(path) ==
  LET lower == {"a", "b", "c", "d", "e", "f", "g", "h", "i", "j", "k", "l", "m", "n", "o", "p",
                "q", "r", "s", "t", "u", "v", "w", "x", "y", "z"}
      upper == {"A", "B", "C", "D", "E", "F", "G", "H", "I", "J", "K", "L", "M", "N", "O", "P",
                "Q", "R", "S", "T", "U", "V", "W", "X", "Y", "Z"}
      indexOf(s) == LET hits == {i \in 1..(Len(path) - Len(s) + 1) :
                                   SubSeq(path, i, i + Len(s) - 1) = s}
                    IN IF hits = {} THEN -1 ELSE Min(hits) - 1
      clamp(i) == IF i < 0 THEN 0 ELSE IF i > Len(path) THEN Len(path) ELSE i
      substring(a, b) == IF clamp(a) <= clamp(b) THEN SubSeq(path, clamp(a) + 1, clamp(b))
                         ELSE SubSeq(path, clamp(b) + 1, clamp(a))
      begin == indexOf(<<".", "$">>)
      end == indexOf(<<"]">>)
      parent == substring(0, begin)
      child == substring(begin + 3, end)
      rest == substring(end + 2, Len(path))
      FILTER_IDENT_RE == /\ child # <<>>
                         /\ child[1] \in lower
                         /\ \A i \in DOMAIN child : child[i] \in lower \cup upper \/ isDigit(child[i])
      more == IF rest # <<>> THEN tokenizePath(rest)
              ELSE [nodes |-> <<>>, vars |-> <<>>, threw |-> FALSE]
  IN IF begin = -1
       THEN [nodes |-> <<[parent |-> path, child |-> <<>>]>>, vars |-> <<>>, threw |-> FALSE]
     ELSE IF child # <<>> /\ ~FILTER_IDENT_RE
       THEN [nodes |-> <<>>, vars |-> <<>>, threw |-> TRUE]
     ELSE [nodes |-> <<[parent |-> parent, child |-> IF child = <<>> THEN <<"$">> ELSE child]>>
                       \o more.nodes,
           vars |-> (IF child = <<>> THEN <<>> ELSE <<child>>) \o more.vars,
           threw |-> more.threw]

\* The update function of an operator gets the value at a location (Undef: the
\* key is absent) and gives the value there afterwards (Undef: no key), whether
\* it counted a change, and whether it threw.

\* $set
setAt(cur, val) ==
  IF cur # val THEN [v |-> val, changed |-> TRUE, threw |-> FALSE]
  ELSE [v |-> cur, changed |-> FALSE, threw |-> FALSE]

\* $unset
unsetAt(cur) ==
  IF cur # Undef THEN [v |-> Undef, changed |-> TRUE, threw |-> FALSE]
  ELSE [v |-> cur, changed |-> FALSE, threw |-> FALSE]

\* $mul: o[k] = isNil(prev) ? 0 : o[k] * val, changed if o[k] !== prev; the
\* product of a non-number is NaN, and NaN !== NaN
mulAt(prev, val) ==
  LET product == CASE prev.t = "num" -> Num(prev.n * val.n)
                   [] prev.t = "arr" /\ prev.items = <<>> -> Num(0)
                   [] prev.t = "arr" /\ Len(prev.items) = 1 /\ prev.items[1].t = "num"
                        -> Num(prev.items[1].n * val.n)
                   [] OTHER -> NaN
      next == IF prev.t \in {"undef", "null"} THEN Num(0) ELSE product
  IN [v |-> next, changed |-> next = NaN \/ next # prev, threw |-> FALSE]

\* $max: compare(o[k], val) < 0, the comparison of the two as numbers
maxAt(cur, val) ==
  LET less == CASE cur.t = "num" -> cur.n < val.n
                [] cur.t = "null" -> 0 < val.n
                [] cur.t = "arr" /\ cur.items = <<>> -> 0 < val.n
                [] cur.t = "arr" /\ Len(cur.items) = 1 /\ cur.items[1].t = "num"
                     -> cur.items[1].n < val.n
                [] OTHER -> FALSE
  IN IF less THEN [v |-> val, changed |-> TRUE, threw |-> FALSE]
     ELSE [v |-> cur, changed |-> FALSE, threw |-> FALSE]

\* $min: the mirror of $max, compare(o[k], val) > 0
minAt(cur, val) ==
  LET greater == CASE cur.t = "num" -> cur.n > val.n
                   [] cur.t = "null" -> 0 > val.n
                   [] cur.t = "arr" /\ cur.items = <<>> -> 0 > val.n
                   [] cur.t = "arr" /\ Len(cur.items) = 1 /\ cur.items[1].t = "num"
                        -> cur.items[1].n > val.n
                   [] OTHER -> FALSE
  IN IF greater THEN [v |-> val, changed |-> TRUE, threw |-> FALSE]
     ELSE [v |-> cur, changed |-> FALSE, threw |-> FALSE]

\* $pop: arr.length of undefined or null throws; only an array has a length here
popAt(arr, val) ==
  IF arr.t \in {"undef", "null"} THEN [v |-> arr, changed |-> FALSE, threw |-> TRUE]
  ELSE IF arr.t = "arr" /\ arr.items # <<>>
    THEN [v |-> Arr(IF val = Num(-1) THEN Tail(arr.items)
                    ELSE SubSeq(arr.items, 1, Len(arr.items) - 1)),
          changed |-> TRUE, threw |-> FALSE]
  ELSE [v |-> arr, changed |-> FALSE, threw |-> FALSE]

\* $pull with a value that is not an object: the query {k: {$in: [val]}}; prev.map
\* of anything but an array throws
pullAt(prev, val) ==
  LET matches(v) == IF v.t = "arr" THEN \E i \in DOMAIN v.items : v.items[i] = val ELSE v = val
      curr == SelectSeq(prev.items, LAMBDA v : ~matches(v))
      emit == \E i \in DOMAIN prev.items : matches(prev.items[i])
  IN IF prev.t # "arr" THEN [v |-> prev, changed |-> FALSE, threw |-> TRUE]
     ELSE IF emit THEN [v |-> Arr(curr), changed |-> TRUE, threw |-> FALSE]
     ELSE [v |-> prev, changed |-> FALSE, threw |-> FALSE]

\* $push: the values of $each (the value itself without modifiers) are inserted
\* at $position, the array is sorted if $sort is 1 or -1 (arrays of numbers),
\* then cut to $slice elements from the front or, negative, from the back; a
\* change is counted if the length differs or the copy prev, taken before with
\* arr.slice(0, $slice || arr.length), differs from the array afterwards
pushAt(arr, val) ==
  LET arg(m) == IF val.t = "obj" THEN getValue(val, m) ELSE Undef
      each == arg(<<"$", "e", "a", "c", "h">>)
      slice == arg(<<"$", "s", "l", "i", "c", "e">>)
      sort == arg(<<"$", "s", "o", "r", "t">>)
      position == arg(<<"$", "p", "o", "s", "i", "t", "i", "o", "n">>)
      items == IF each = Undef THEN <<val>> ELSE each.items
      old == arr.items
      \* Array.prototype.slice(0, n) and the start index of splice
      upTo(n) == IF n < 0 THEN (IF Len(old) + n < 0 THEN 0 ELSE Len(old) + n)
                 ELSE IF n > Len(old) THEN Len(old) ELSE n
      prev == SubSeq(old, 1, IF slice.t = "num" /\ slice.n # 0 THEN upTo(slice.n) ELSE Len(old))
      pos == IF position.t = "num" THEN upTo(position.n) ELSE Len(old)
      inserted == SubSeq(old, 1, pos) \o items \o SubSeq(old, pos + 1, Len(old))
      count(s, x) == Cardinality({i \in DOMAIN s : s[i] = x})
      sorted(s) == CHOOSE r \in [DOMAIN s -> Range(s)] :
                     /\ \A x \in Range(s) : count(r, x) = count(s, x)
                     /\ \A i, j \in DOMAIN r : i < j => sort.n * r[i].n <= sort.n * r[j].n
      cut(s) == IF slice.t # "num" THEN s
                ELSE IF slice.n < 0
                  THEN SubSeq(s, (IF Len(s) + slice.n < 0 THEN 0 ELSE Len(s) + slice.n) + 1, Len(s))
                ELSE SubSeq(s, 1, IF slice.n > Len(s) THEN Len(s) ELSE slice.n)
      final(s) == [v |-> Arr(s), changed |-> Len(old) # Len(s) \/ prev # s, threw |-> FALSE]
  IN IF arr.t # "arr" THEN [v |-> arr, changed |-> FALSE, threw |-> TRUE]
     ELSE final(cut(IF sort.t = "num" /\ sort.n # 0 THEN sorted(inserted) ELSE inserted))

\* $addToSet on an array: common = intersection([prev, $each]), the distinct
\* values found in both; if it is shorter than $each the array becomes
\* unique(prev.concat($each)), the first occurrence of every value, and a change
\* is counted
addToSetAt(prev, val) ==
  LET each == IF val.t = "obj" THEN getValue(val, <<"$", "e", "a", "c", "h">>) ELSE Undef
      items == IF each = Undef THEN <<val>> ELSE each.items
      common == Range(prev.items) \cap Range(items)
      concat == prev.items \o items
      firsts == {i \in DOMAIN concat : \A j \in 1..(i - 1) : concat[j] # concat[i]}
      unique[i \in 0..Len(concat)] ==
        IF i = 0 THEN <<>>
        ELSE IF i \in firsts THEN Append(unique[i - 1], concat[i]) ELSE unique[i - 1]
  IN IF Cardinality(common) # Len(items)
       THEN [v |-> Arr(unique[Len(concat)]), changed |-> TRUE, threw |-> FALSE]
     ELSE [v |-> prev, changed |-> FALSE, threw |-> FALSE]
filterTestAlways(q, c, e) == TRUE

\* !q[c] || q[c].test({[c]: e}), for conditions {path: {$gte: n}}: some value at
\* the path is a number and at least n
filterTest(q, c, e) ==
  IF c \notin DOMAIN q THEN TRUE
  ELSE \A i \in DOMAIN q[c].kv :
         LET v == resolve(Obj(<<KV(c, e)>>), Segments(q[c].kv[i].k))
             n == q[c].kv[i].v.kv[1].v.n
             some == IF v.t = "arr" THEN Range(v.items) ELSE {v}
         IN \E x \in some : x.t = "num" /\ x.n >= n

\* the update function of operator op called on (x, k), an object with a key or
\* an array with an index: x afterwards, the changed flag, a throw
updateAt(x, k, op, val) ==
  LET put(cur, v) ==
        IF x.t = "arr" THEN Arr([x.items EXCEPT ![k + 1] = v])
        ELSE IF v = Undef THEN Obj(SelectSeq(x.kv, LAMBDA e : e.k # k))
        ELSE IF cur = Undef THEN Obj(Append(x.kv, KV(k, v)))
        ELSE Obj([i \in DOMAIN x.kv |-> IF x.kv[i].k = k THEN KV(k, v) ELSE x.kv[i]])
      written(cur, r) ==
        [o |-> IF r.threw THEN x ELSE put(cur, r.v), changed |-> r.changed, threw |-> r.threw]
      f(cur) == written(cur, CASE op = "$set" -> setAt(cur, val)
                               [] op = "$unset" -> unsetAt(cur)
                               [] op = "$mul" -> mulAt(cur, val)
                               [] op = "$max" -> maxAt(cur, val)
                               [] op = "$min" -> minAt(cur, val)
                               [] op = "$pop" -> popAt(cur, val)
                               [] op = "$push" -> pushAt(cur, val)
                               [] op = "$addToSet" -> addToSetAt(cur, val)
                               [] OTHER -> pullAt(cur, val))
  IN f(IF x.t = "arr" THEN x.items[k + 1] ELSE getValue(x, k))

RECURSIVE applyUpdate(_, _, _, _, _)
RECURSIVE forEach(_, _, _, _, _, _)

\* t.forEach((e, i) => ...) of applyUpdate from index i on; acc holds the array
\* so far, the changed flag and a throw, which ends the loop
forEach(acc, i, n, q, op, val) ==
  LET inElement(s) == [o |-> Arr([acc.o.items EXCEPT ![i + 1] = s.o]),
                       changed |-> s.changed, threw |-> s.threw]
      go(r) == forEach([o |-> r.o, changed |-> acc.changed \/ r.changed, threw |-> r.threw],
                       i + 1, n, q, op, val)
  IN IF acc.threw \/ i >= Len(acc.o.items) THEN acc
     ELSE go(IF ~filterTest(q, Head(n).child, acc.o.items[i + 1])
               THEN [o |-> acc.o, changed |-> FALSE, threw |-> FALSE]
             ELSE IF Len(n) > 1
               THEN inElement(applyUpdate(acc.o.items[i + 1], Tail(n), q, op, val))
             ELSE updateAt(acc.o, i, op, val))

\* applyUpdate on a chain of nodes whose parents are single keys, with the update
\* function of operator op: the object afterwards, the changed flag, a throw
applyUpdate(o, n, q, op, val) ==
  LET parent == Head(n).parent
      same == [o |-> o, changed |-> FALSE, threw |-> FALSE]
      inParent(r) ==
        [o |-> IF o.t = "obj"
                 THEN Obj([i \in DOMAIN o.kv |->
                             IF o.kv[i].k = parent THEN KV(parent, r.o) ELSE o.kv[i]])
               ELSE o,
         changed |-> r.changed, threw |-> r.threw]
      elements(t) ==
        IF t.t # "arr" THEN same
        ELSE inParent(forEach([o |-> t, changed |-> FALSE, threw |-> FALSE], 0, n, q, op, val))
  IN IF Head(n).child = <<>>
       THEN IF o.t = "obj" THEN updateAt(o, parent, op, val) ELSE same
     ELSE elements(resolve(o, Segments(parent)))

\* walkExpression with the callback of operator op, for the one pair (selector,
\* val) of its expression: the document afterwards and the paths emitted
walkExpression(op, obj, selector, val, arrayFilter) ==
  LET entries[i \in 0..Len(arrayFilter)] ==
        IF i = 0 THEN <<>> ELSE entries[i - 1] \o arrayFilter[i].kv
      conditions(w) == SelectSeq(entries[Len(arrayFilter)],
                                 LAMBDA e : e.k = w \/ startsWith(e.k, w \o <<".">>))
      queries(vs) == [w \in {x \in Range(vs) : conditions(x) # <<>>} |-> Obj(conditions(w))]
      emit(node, r) ==
        [doc |-> r.o, emitted |-> IF r.changed /\ ~r.threw THEN <<node.parent>> ELSE <<>>,
         threw |-> r.threw]
      callback(tok) ==
        IF tok.threw THEN [doc |-> obj, emitted |-> <<>>, threw |-> TRUE]
        ELSE emit(tok.nodes[1], applyUpdate(obj, tok.nodes, queries(tok.vars), op, val))
  IN callback(tokenizePath(selector))

\* an operator is called on a document {n: number, arr: array} (n may be absent,
\* null or NaN) with one selector, a value and a list of array filters; $push
\* and $addToSet are called with a value or with {$each, $slice, $sort,
\* $position}, $push on arrays of numbers, $addToSet on the array arr; $set is
\* also called with selectors of two placeholders and of ill-formed identifiers
InitOperators ==
  /\ doc = InitialDoc
  /\ modified = TRUE
  /\ prevState = Undefined
  /\ selectors = <<>>
  /\ signals = <<>>
  /\ sels = <<>>
  /\ stack = <<>>
  /\ ret = NoRet
  /\ budget = [calls |-> 0, nested |-> 0]
  /\ hist = NoHist
  /\ sigChanged = <<>>
  /\ sigExpected = {}
  /\ sigResult = "none"
  /\ snap = createStore(0, 0)
  /\ LET elems == {Num(0), Num(MaxVal), Obj(<<KV(<<"x">>, Num(0))>>),
                   Obj(<<KV(<<"x">>, Num(MaxVal))>>), Arr(<<Num(MaxVal)>>)}
         arrs == UNION {[1..k -> elems] : k \in 0..MaxArr}
         ns == {Undef, Null, NaN} \cup {Num(v) : v \in 0..MaxVal}
         mk(a, x) == Obj(<<KV(<<"a", "r", "r">>, Arr(a))>>
                           \o IF x = Undef THEN <<>> ELSE <<KV(<<"n">>, x)>>)
         docs == {mk(a, Num(1)) : a \in arrs} \cup {mk(<<Num(0), Num(MaxVal)>>, x) : x \in ns}
         gte1 == Obj(<<KV(<<"$", "g", "t", "e">>, Num(1))>>)
         nums == {Num(0), Num(MaxVal)}
         lists == UNION {[1..k -> nums] : k \in 0..MaxArr}
         opt(m, S) == {<<>>} \cup {<<KV(m, Num(x))>> : x \in S}
         modifiers == {Obj(<<KV(<<"$", "e", "a", "c", "h">>, Arr(e))>> \o s \o o \o p) :
                         e \in lists,
                         s \in opt(<<"$", "s", "l", "i", "c", "e">>, (0 - MaxPush)..MaxPush),
                         o \in opt(<<"$", "s", "o", "r", "t">>, {-1, 1}),
                         p \in opt(<<"$", "p", "o", "s", "i", "t", "i", "o", "n">>, {-1, 0, 1})}
         pushes == {[op |-> "$push", selector |-> s, val |-> v, arrayFilters |-> <<>>, doc |-> d,
                     after |-> d, emitted |-> <<>>, threw |-> FALSE, done |-> FALSE] :
                      s \in {<<"n">>, <<"a", "r", "r">>}, v \in nums \cup modifiers,
                      d \in {mk(a, Num(1)) : a \in lists}}
         adds == {[op |-> "$addToSet", selector |-> <<"a", "r", "r">>, val |-> v,
                   arrayFilters |-> <<>>, doc |-> d,
                   after |-> d, emitted |-> <<>>, threw |-> FALSE, done |-> FALSE] :
                    v \in nums \cup {Arr(<<Num(MaxVal)>>)}
                            \cup {Obj(<<KV(<<"$", "e", "a", "c", "h">>, Arr(e))>>) : e \in lists},
                    d \in {mk(a, Num(1)) : a \in arrs}}
         \* selectors with two placeholders, one after a segment or right after
         \* the first, and with identifiers of every kind
         chains == {[op |-> "$set", selector |-> s, val |-> Num(1), arrayFilters |-> <<>>,
                     doc |-> d, after |-> d, emitted |-> <<>>, threw |-> FALSE, done |-> FALSE] :
                      s \in {<<"a", ".", "$", "[", "e", "]", ".", "b", ".", "$", "[", "f", "]">>,
                             <<"a", ".", "$", "[", "e", "]", ".", "b", ".", "$", "[", "f", "]", ".", "c">>,
                             <<"a", ".", "$", "[", "]", ".", "b", ".", "$", "[", "f", "]">>,
                             <<"a", ".", "$", "[", "e", "A", "1", "]">>,
                             <<"a", ".", "$", "[", "E", "]">>,
                             <<"a", ".", "$", "[", "e", "_", "]">>,
                             <<"a", ".", "$", "[", "1", "e", "]">>,
                             <<"a", ".", "$", "[", "e", "]", ".", "b", ".", "$", "[", "F", "]">>,
                             <<"a", ".", "$", "[", "e", "]", ".", "$", "[", "f", "]">>,
                             <<"a", ".", "$", "[", "]", ".", "$", "[", "]">>},
                      d \in {mk(a, Num(1)) : a \in lists}}
     IN call \in pushes \cup adds \cup chains \cup
                 {[op |-> op, selector |-> s, val |-> v, arrayFilters |-> af, doc |-> d,
                   after |-> d, emitted |-> <<>>, threw |-> FALSE, done |-> FALSE] :
                    op \in {"$set", "$unset", "$mul", "$max", "$min", "$pop", "$pull"},
                    s \in {<<"n">>, <<"a", "r", "r">>,
                           <<"a", "r", "r", ".", "$", "[", "]">>,
                           <<"a", "r", "r", ".", "$", "[", "e", "]">>,
                           <<"a", "r", "r", ".", "$", "[", "g", "]">>,
                           <<"a", "r", "r", ".", "$", "[", "e", "]", ".", "x">>,
                           <<"a", "r", "r", ".", "$", "[", "]", ".", "x">>,
                           <<"n", ".", "$", "[", "]">>},
                    v \in {Num(-1), Num(1), Num(MaxVal)},
                    af \in {<<>>, <<Obj(<<KV(<<"e">>, gte1)>>)>>,
                            <<Obj(<<KV(<<"e", ".", "x">>, gte1)>>)>>},
                    d \in docs}

\* the operator runs
OperatorCall ==
  /\ ~call.done
  /\ LET r == walkExpression(call.op, call.doc, call.selector, call.val, call.arrayFilters)
     IN call' = [call EXCEPT !.after = r.doc, !.emitted = r.emitted, !.threw = r.threw,
                             !.done = TRUE]
  /\ UNCHANGED <<doc, modified, prevState, selectors, signals, sels, stack, ret, budget, hist,
                 sigChanged, sigExpected, sigResult, snap>>

SpecOperators == InitOperators /\ [][OperatorCall]_vars
\* ------------------------------------------------------------------ C1

\* x is a proper ancestor of y at a "." boundary
IsAncestor(x, y) ==
  LET sx == Segments(x)
      sy == Segments(y)
  IN Len(sx) < Len(sy) /\ SubSeq(sy, 1, Len(sx)) = sx

Related(f, d) == f = d \/ IsAncestor(f, d) \/ IsAncestor(d, f)

\* the duplicate-count test of the signal
DuplicateTest(changed, expected) ==
  Cardinality(Range(changed) \cup expected) < Cardinality(expected) + Len(changed)

\* C1: the signal of a selector with dependency set D decides to notify on a
\* changed list F exactly when D is empty or some f in F and d in D are equal or
\* one is an ancestor of the other at a "." boundary; and whenever the
\* duplicate-count test is true the path test is true as well, so it never
\* changes the decision.
C1_SignalIffRelated ==
  sigResult # "none" =>
    /\ (sigResult = "notify") <=>
         (sigExpected = {} \/ \E i \in DOMAIN sigChanged, d \in sigExpected :
                                 Related(sigChanged[i], d))
    /\ DuplicateTest(sigChanged, sigExpected) =>
         \E i \in DOMAIN sigChanged : pred(sigExpected, sigChanged[i])

\* a decision to notify that rests on an ancestor, next to a path that only
\* shares a string prefix with an expected one
C1_Witness ==
  /\ sigResult = "notify"
  /\ sigExpected # {}
  /\ ~DuplicateTest(sigChanged, sigExpected)
  /\ \E i \in DOMAIN sigChanged, d \in sigExpected : IsAncestor(sigChanged[i], d)
  /\ \E i \in DOMAIN sigChanged, d \in sigExpected :
       startsWith(d, sigChanged[i]) /\ ~Related(sigChanged[i], d)

\* ------------------------------------------------------------------ rounds

\* the outermost update has gone through every selector and is about to return
OuterAtReturn == AtReturn /\ Len(stack) = 1 /\ hist.active

\* no listener of the round made a call, and none threw
CalmRound == hist.quiet /\ hist.nothrow

\* the view of selector s of a document
ViewOf(s, d) == View(sels[s].projection, sels[s].query, d)

\* the invocations of listener l of selector s in the running outermost call
Invocations(s, l) == {i \in DOMAIN hist.log : hist.log[i].s = s /\ hist.log[i].l = l}

\* the listeners selector s had when the outermost update was called
ListenersBefore(s) == setMembers(hist.preSels[s].listeners)

\* ------------------------------------------------------------------ C2

\* C2: when an update whose listeners neither throw nor make calls changes the
\* value of a selector that had listeners when the update was called, every one
\* of these listeners is invoked exactly once, with the new value, during the
\* update, whatever calls were made before.
C2_ChangeInvokesEachOnce ==
  (OuterAtReturn /\ CalmRound) =>
    \A s \in DOMAIN hist.preSels :
      (ListenersBefore(s) # {} /\ ViewOf(s, hist.preDoc) # ViewOf(s, doc)) =>
        \A l \in ListenersBefore(s) :
          /\ Cardinality(Invocations(s, l)) = 1
          /\ \A i \in Invocations(s, l) : hist.log[i].v = ViewOf(s, doc)

\* ------------------------------------------------------------------ C3

HasCondition(s) == sels[s].query # EmptyCondition

\* each listener selector s had before the update was invoked once, with v
EachInvokedOnceWith(s, v) ==
  \A l \in ListenersBefore(s) :
    /\ Cardinality(Invocations(s, l)) = 1
    /\ \A i \in Invocations(s, l) : hist.log[i].v = v

NoneInvoked(s) == \A l \in Listeners : Invocations(s, l) = {}

\* the selectors with a condition and listeners that the outermost update signals
Conditioned ==
  {s \in DOMAIN hist.preSels :
     HasCondition(s) /\ ListenersBefore(s) # {} /\ signalNotify(stack[1].fields, signals[s])}

C4_NotifyCountIsInvocations ==
  (OuterAtReturn /\ CalmRound) => Top.notifyCount = Top.invoked

\* ------------------------------------------------------------------ C5

\* C5: a listener registered with runOnce is invoked at most once during its
\* registration, updates made from inside listeners included.
C5_OnceAtMostOnce ==
  \A s \in DOMAIN sels : \A l \in Listeners : sels[s].runs[l] <= 1

\* ------------------------------------------------------------------ C6

\* a listener invoked by notifyAll is running
InFanOut == IF stack = <<>> THEN FALSE ELSE Top.kind = "update" /\ Top.pc = "listener"

\* the loop of notifyAll has no entry left to visit
FanOutDone ==
  IF stack = <<>> THEN FALSE
  ELSE /\ Top.kind = "update"
       /\ Top.pc = "loop"
       /\ \A i \in DOMAIN sels[Top.sel].listeners :
            i > Top.li => sels[Top.sel].listeners[i] = 0

\* C6: when a listener throws during the fan-out of notifyAll, that listener and
\* no other is removed from the selector, the update keeps running (the error
\* does not leave notifyAll), every listener still registered when the fan-out
\* ends has been invoked in it, and the update returns its normal result.
C6_ThrowRemovesOnlyThrower ==
  /\ [][ListenerThrow =>
          /\ setMembers(sels'[Top.sel].listeners) = setMembers(sels[Top.sel].listeners) \ {Top.lis}
          /\ sels'[Top.sel].onceOnly = sels[Top.sel].onceOnly \ {Top.lis}
          /\ \A s \in DOMAIN sels : s # Top.sel => sels'[s] = sels[s]
          /\ Len(stack') = Len(stack)
          /\ stack'[Len(stack)].pc = "loop"
          /\ stack'[Len(stack)].invoked = Top.invoked]_vars
  /\ [](FanOutDone => setMembers(sels[Top.sel].listeners) \subseteq Range(Top.seen))
  /\ []((ret.call = "update" /\ ret.modified) =>
          (~ret.threw /\ ret.keys = {"modified", "fields", "notifyCount"}))

\* a listener is invoked in a fan-out in which an earlier listener threw
C6_Witness ==
  /\ InFanOut
  /\ Top.threw # {}
  /\ Top.lis \notin Top.threw
  /\ \A l \in Top.threw : ~setHas(sels[Top.sel].listeners, l)

\* ------------------------------------------------------------------ C7

\* the selector registered for a hash
Registered(hash) == {i \in DOMAIN selectors : selectors[i].hash = hash}

\* C7: select with a (projection, condition) pair that was selected before
\* returns the Selector the first call returned and registers nothing: a pair has
\* at most one selector, a registration is never replaced, and a repeated call
\* leaves the selectors and the signals as they were.
C7_SelectIdempotent ==
  /\ [](\A i, j \in DOMAIN selectors :
          (selectors[i].hash = selectors[j].hash \/ selectors[i].sel = selectors[j].sel) => i = j)
  /\ [](Len(signals) = Len(selectors) /\ Len(sels) = Len(selectors))
  /\ [][\A i \in DOMAIN selectors : i \in DOMAIN selectors' /\ selectors'[i] = selectors[i]]_vars
  /\ [][\A inp \in {x \in SelectInputs : selectValid(x[1])} :
          Select(inp[1], inp[2]) =>
            /\ \E i \in Registered(inp)' : selectors'[i].sel = ret'.sel
            /\ Registered(inp) # {} =>
                 /\ UNCHANGED <<selectors, signals, sels>>
                 /\ \E i \in Registered(inp) : selectors[i].sel = ret'.sel]_vars

\* a repeated select after subscriptions and updates, with two selectors registered
C7_Witness ==
  /\ ret.call = "select"
  /\ ret.reused
  /\ Len(selectors) = 2
  /\ budget.calls >= 2
  /\ doc # InitialDoc

\* ------------------------------------------------------------------ C8

\* C8: outside a notification round, getState of every selector returns the
\* selector's view of the current document.
C8_SelectorStateCurrent ==
  stack = <<>> =>
    \A s \in DOMAIN sels :
      selectorGetState(sels[s], doc, modified, prevState).value = ViewOf(s, doc)

\* ------------------------------------------------------------------ C9

C10_NoChangeNoEffect ==
  [][\A exprs \in (IF budget' = budget THEN {}
                   ELSE UNION {[1..n -> {e \in SetExprs : doc[e.f] = e.v}] : n \in 1..MaxExprs}) :
       Update(exprs, EmptyCondition) =>
         /\ ret' = [NoRet EXCEPT !.call = "update", !.keys = {"modified"}]
         /\ ~ret'.modified
         /\ UNCHANGED <<doc, modified, prevState, selectors, signals, sels, stack>>
         /\ hist'.log = (IF stack = <<>> THEN <<>> ELSE hist.log)]_vars

\* an update that changed nothing has returned while a once-only listener is
\* registered and the full state is cached
C10_Witness ==
  /\ ret.call = "update"
  /\ ~ret.modified
  /\ ret.keys = {"modified"}
  /\ ~modified
  /\ \E s \in DOMAIN sels : sels[s].onceOnly # {} /\ setSize(sels[s].listeners) > 0

\* ------------------------------------------------------------------ C11

\* C11: the modified flag of an update is true if and only if the document after
\* the update differs from the document before it, for every operator ($inc by 0
\* included): the update goes on as modified exactly when the document its
\* mutations leave differs from the one it was called on.
C11_ModifiedIffChanged ==
  call.done => (~updateUnchanged(call.fields) <=> call.after # call.doc)


\* ------------------------------------------------------------------ C12

\* C12: subscribe with a listener that is already registered on the selector, in
\* either mode and with any options, throws at once and leaves the listener set,
\* the once-only set and the runs of the selector as they were; the listener is
\* not invoked by the call.
C12_DuplicateSubscribeThrows ==
  [][\A s \in DOMAIN sels :
       \A l \in (IF budget' = budget THEN {} ELSE Listeners \cap setMembers(sels[s].listeners)) :
         \A runOnce, runImmediately \in BOOLEAN :
           Subscribe(s, l, runOnce, runImmediately) =>
             /\ ret' = [NoRet EXCEPT !.call = "subscribe", !.sel = s, !.threw = TRUE]
             /\ UNCHANGED <<sels, stack, doc, modified, prevState>>
             /\ hist'.log = (IF stack = <<>> THEN <<>> ELSE hist.log)]_vars

\* a subscribe has thrown on a selector on which every listener is registered, one
\* of them once-only: the listener given was registered already
C12_Witness ==
  /\ ret.call = "subscribe"
  /\ ret.threw
  /\ setMembers(sels[ret.sel].listeners) = Listeners
  /\ sels[ret.sel].onceOnly # {}


\* ------------------------------------------------------------------ C13

\* C13: when the listener of a runImmediately subscription throws during its
\* invocation at registration, subscribe throws to its caller and the listener is
\* left in neither the listener set nor the once-only set of the selector; nothing
\* else of the store changes and the caller carries on.
C13_ImmediateThrowUnregisters ==
  [][ImmediateThrow =>
       /\ ret'.call = "subscribe" /\ ret'.threw
       /\ ~setHas(sels'[Top.sel].listeners, Top.lis)
       /\ Top.lis \notin sels'[Top.sel].onceOnly
       /\ \A l \in Listeners \ {Top.lis} :
            /\ setHas(sels'[Top.sel].listeners, l) = setHas(sels[Top.sel].listeners, l)
            /\ (l \in sels'[Top.sel].onceOnly) = (l \in sels[Top.sel].onceOnly)
       /\ stack' = Pop
       /\ UNCHANGED <<doc, modified, prevState, selectors, signals>>]_vars

\* a subscribe has thrown to the program on a selector that has a cached value and
\* no listener: the listener it was given ran at registration and threw
C13_Witness ==
  /\ stack = <<>>
  /\ ret.call = "subscribe"
  /\ ret.threw
  /\ setMembers(sels[ret.sel].listeners) = {}
  /\ sels[ret.sel].onceOnly = {}
  /\ sels[ret.sel].cached


\* ------------------------------------------------------------------ C14

\* C14: subscribe with runImmediately invokes the listener at once, one time, with
\* the current value of the selector if and only if that value is defined; when
\* it is undefined the listener is not invoked and stays registered.  Without
\* runImmediately subscribe does not invoke the listener.
C14_ImmediateIffDefined ==
  [][\A s \in DOMAIN sels :
       \A l \in (IF budget' = budget THEN {} ELSE Listeners \ setMembers(sels[s].listeners)) :
         \A runOnce, runImmediately \in BOOLEAN :
           Subscribe(s, l, runOnce, runImmediately) =>
             IF runImmediately /\ ViewOf(s, doc) # Undefined
               THEN stack' = Append(stack, SubFrame(s, l, ViewOf(s, doc)))
               ELSE stack' = stack /\ setHas(sels'[s].listeners, l)]_vars


\* ------------------------------------------------------------------ C15

\* C15: once the Unsubscribe function of a listener has been called the listener
\* is in neither set of the selector and is not counted in its size, the other
\* listeners of the selector are registered as before, and a notification invokes
\* only listeners that are in the listener set when their turn comes.
C15_UnsubscribedNotInvoked ==
  [][/\ \A s \in DOMAIN sels :
          \A l \in (IF budget' = budget THEN {} ELSE Listeners) :
            Unsubscribe(s, l) =>
              /\ ~setHas(sels'[s].listeners, l)
              /\ l \notin sels'[s].onceOnly
              /\ setSize(sels'[s].listeners) = setSize(sels[s].listeners) - 1
              /\ \A k \in Listeners \ {l} :
                   /\ setHas(sels'[s].listeners, k) = setHas(sels[s].listeners, k)
                   /\ (k \in sels'[s].onceOnly) = (k \in sels[s].onceOnly)
     /\ (LoopStep /\ stack'[Len(stack')].pc = "listener") =>
          setHas(sels[Top.sel].listeners, stack'[Len(stack')].lis)]_vars

\* an Unsubscribe function has been called by the program and the selector still
\* has another listener
C15_Witness ==
  /\ stack = <<>>
  /\ ret.call = "unsubscribe"
  /\ setMembers(sels[ret.sel].listeners) # {}
  /\ setMembers(sels[ret.sel].listeners) # Listeners


\* ------------------------------------------------------------------ C16

\* C16: an update called with a condition that does not hold for the document
\* changes nothing, returns {modified: false} and notifies no selector; when the
\* condition holds, the update does what the same call without a condition does.
C16_ConditionGuardsUpdate ==
  call.done =>
    IF queryTest(call.condition, call.doc)
      THEN /\ call.after = mutateAll(call.doc, call.exprs, EmptyCondition).doc
           /\ call.fields = changedFields(mutateAll(call.doc, call.exprs, EmptyCondition).emitted)
      ELSE call.after = call.doc /\ updateUnchanged(call.fields)

\* ------------------------------------------------------------------ C17

\* C17: every value the store hands out is a deep-frozen copy: the program cannot
\* change it, it shares no object with the document or with the object the store
\* was made from, and it keeps the value it had when it was handed out whatever
\* updates follow; the document is changed by updates only, never by the program
\* writing to the object it made the store from or to a value it was handed.
C17_SnapshotsIndependent ==
  /\ deepValue(snap.objs, snap.state) = snap.expected
  /\ \A h \in snap.handed :
       LET own == {h.root, snap.objs[h.root].child}
       IN /\ \A o \in own : snap.objs[o].frozen
          /\ deepValue(snap.objs, h.root) = h.value
          /\ own \cap {1, 2, snap.state, snap.objs[snap.state].child} = {}

\* a value was handed out and the document updated since, the program has tried
\* to write to a handed-out value, and has changed the object the store was made
\* from
C17_Witness ==
  /\ snap.denied
  /\ deepValue(snap.objs, 2) # snap.expected
  /\ \E h \in snap.handed :
       /\ h.value # snap.expected
       /\ h.value # deepValue(snap.objs, 2)


\* ------------------------------------------------------------------ C18

\* C18: sameAncestor(A, p) is true exactly when some q in A is p, or q followed by
\* "." is a prefix of p, or p followed by "." is a prefix of q; it is reflexive
\* and symmetric, and false for two paths of which one is a string prefix of the
\* other without a "." after it.
C18_SameAncestorBoundary ==
  sigResult # "none" =>
    \A i \in DOMAIN sigChanged :
      LET p == sigChanged[i]
      IN /\ sameAncestor(sigExpected, p) <=>
              \E q \in sigExpected :
                q = p \/ startsWith(p, q \o <<".">>) \/ startsWith(q, p \o <<".">>)
         /\ sameAncestor({p}, p)
         /\ \A q \in sigExpected :
              /\ sameAncestor({q}, p) = sameAncestor({p}, q)
              /\ (startsWith(p, q) /\ Len(q) < Len(p) /\ p[Len(q) + 1] # ".") =>
                   (~sameAncestor({q}, p) /\ ~sameAncestor({p}, q))

\* the function was applied to a changed path that has an expected path as a bare
\* string prefix and to one that is an ancestor of an expected path
C18_Witness ==
  /\ sigResult # "none"
  /\ \E i \in DOMAIN sigChanged, q \in sigExpected :
       /\ startsWith(sigChanged[i], q)
       /\ Len(q) < Len(sigChanged[i])
       /\ sigChanged[i][Len(q) + 1] # "."
  /\ \E i \in DOMAIN sigChanged, q \in sigExpected : startsWith(q, sigChanged[i] \o <<".">>)


\* ------------------------------------------------------------------ C19

\* C19: when an update modifies the document, the fields list it goes on with
\* holds every path the operators emitted, each one time, in ascending order,
\* also when several expressions of the call emit the same path.
C19_FieldsSortedNoDuplicates ==
  call.done =>
    LET emitted == mutateAll(call.doc, call.exprs, call.condition).emitted
    IN /\ Range(call.fields) = Range(emitted)
       /\ \A i \in 1..(Len(call.fields) - 1) : StrLess(call.fields[i], call.fields[i + 1])

\* the fields list of an update with a condition whose two expressions emitted the
\* same path
C19_Witness ==
  /\ call.done
  /\ call.condition # EmptyCondition
  /\ mutateAll(call.doc, call.exprs, call.condition).emitted = <<<<"a">>, <<"a">>>>
  /\ call.fields = <<<<"a">>>>


\* ------------------------------------------------------------------ C20

C21_NoLoopVariableNoLiteral ==
  call.done =>
    \A p \in call.paths : \A i \in DOMAIN p : p[i] \notin {"v", "l"}

\* the paths of an expression that has a field reference next to a loop variable
\* or a $literal: the reference is returned
C21_Witness ==
  /\ call.done
  /\ call.expr.t = "arr"
  /\ Len(call.expr.items) = 2
  /\ \/ call.expr.items[2] = Str(<<"$", "$", "v">>)
     \/ call.expr.items[2].t = "obj"
  /\ call.paths = {<<"x">>}


\* ------------------------------------------------------------------ C22

\* C22: a top-level field key whose value is a plain literal (a string that is no
\* field reference, a number other than 1, a boolean other than true, null)
\* contributes no path when includeRootFields is false and exactly the key when
\* it is true; a key whose value is 1 or true contributes the key in both modes;
\* a value that is a field reference "$x" contributes "x" and not the key.
C22_RootFieldLiterals ==
  (/\ call.done
   /\ call.expr.t = "obj"
   /\ \A i \in DOMAIN call.expr.kv :
        /\ ~isOperator(call.expr.kv[i].k)
        /\ call.expr.kv[i].v.t \in {"str", "num", "bool", "null"}
        /\ call.expr.kv[i].v # Str(<<"$", "$", "v">>)) =>
    call.paths =
      UNION {LET key == call.expr.kv[i].k
                 val == call.expr.kv[i].v
             IN IF val = Str(<<"$", "x">>) THEN {<<"x">>}
                ELSE IF val \in {Num(1), Bool(TRUE)} THEN {key}
                ELSE IF call.includeRootFields THEN {key}
                ELSE {}
             : i \in DOMAIN call.expr.kv}

\* the paths of {a: <plain literal>, b: "$x"} with includeRootFields
C22_Witness ==
  /\ call.done
  /\ call.includeRootFields
  /\ call.expr.t = "obj"
  /\ Len(call.expr.kv) = 2
  /\ call.expr.kv[1].v \in {Str(<<"s">>), Num(0), Num(2), Bool(FALSE), Null}
  /\ call.expr.kv[2].v = Str(<<"$", "x">>)
  /\ call.paths = {<<"a">>, <<"x">>}

\* ------------------------------------------------------------------ C23

\* C23: each of $set, $unset, $mul, $max, $min, $pop and $pull emits a path only
\* if the document afterwards differs from the document before; when it changed
\* the document it emits the text of the selector in front of the first
\* placeholder (the whole selector when there is none); and when the no-op
\* condition of the operator holds at a top-level key (value equal to the old
\* one, key absent, product identical, comparison fails, array empty, no element
\* matches) the document is unchanged and nothing is emitted.
C23_OperatorsEmitIffChanged ==
  LET sel == call.selector
      places == {i \in 1..(Len(sel) - 2) : SubSeq(sel, i, i + 2) = <<".", "$", "[">>}
      front == IF places = {} THEN sel ELSE SubSeq(sel, 1, Min(places) - 1)
      cur == getValue(call.doc, sel)
      val == call.val
      noop == CASE call.op = "$set" -> cur = val
                [] call.op = "$unset" -> cur = Undef
                [] call.op = "$mul" -> cur = NaN \/ (cur.t = "num" /\ cur.n * val.n = cur.n)
                [] call.op = "$max" -> cur.t = "num" /\ cur.n >= val.n
                [] call.op = "$min" -> cur.t = "num" /\ cur.n =< val.n
                [] call.op = "$pop" -> cur = Arr(<<>>)
                [] OTHER -> /\ cur.t = "arr"
                            /\ \A i \in DOMAIN cur.items :
                                 /\ cur.items[i] # val
                                 /\ cur.items[i].t = "arr" => val \notin Range(cur.items[i].items)
  IN (/\ call.done
      /\ ~call.threw
      /\ call.op \in {"$set", "$unset", "$mul", "$max", "$min", "$pop", "$pull"}) =>
       /\ call.emitted # <<>> => call.after # call.doc
       /\ call.after # call.doc => call.emitted = <<front>>
       /\ places = {} /\ noop => call.after = call.doc /\ call.emitted = <<>>

\* ------------------------------------------------------------------ C24

\* C24: an operator called with the selector 'arr.$[e]' or 'arr.$[e].x' leaves
\* every element of arr that does not satisfy the array filter registered for e
\* as it was, and leaves each element that satisfies it as the operator leaves
\* that element when it is the only one under 'arr.$[]' ('arr.$[].x'); with
\* 'arr.$[]', or an identifier no array filter names, this holds of every element;
\* the length of arr and the other field of the document stay the same; and with
\* 'n.$[]', where n is not an array, the document is unchanged and nothing is
\* emitted.
C24_ArrayFilterTargets ==
  LET sel == call.selector
      arr == <<"a", "r", "r">>
      underArr == startsWith(sel, <<"a", "r", "r", ".", "$", "[">>)
      named == startsWith(sel, <<"a", "r", "r", ".", "$", "[", "e", "]">>)
      field == sel[Len(sel)] = "x"
      keys == {call.arrayFilters[i].kv[1].k : i \in DOMAIN call.arrayFilters}
      sat(e) == /\ (named /\ <<"e">> \in keys) =>
                     \/ e.t = "num" /\ e.n >= 1
                     \/ e.t = "arr" /\ \E i \in DOMAIN e.items : e.items[i].t = "num" /\ e.items[i].n >= 1
                /\ (named /\ <<"e", ".", "x">> \in keys) =>
                     /\ e.t = "obj"
                     /\ getValue(e, <<"x">>).t = "num"
                     /\ getValue(e, <<"x">>).n >= 1
      every == <<"a", "r", "r", ".", "$", "[", "]">> \o IF field THEN <<".", "x">> ELSE <<>>
      alone(e) == getValue(walkExpression(call.op, Obj(<<KV(arr, Arr(<<e>>))>>), every, call.val, <<>>).doc,
                           arr).items[1]
      old == getValue(call.doc, arr).items
      new == getValue(call.after, arr).items
  IN call.done /\ ~call.threw =>
       /\ underArr =>
            /\ Len(new) = Len(old)
            /\ \A i \in DOMAIN old : new[i] = IF sat(old[i]) THEN alone(old[i]) ELSE old[i]
            /\ getValue(call.after, <<"n">>) = getValue(call.doc, <<"n">>)
       /\ sel = <<"n", ".", "$", "[", "]">> => call.after = call.doc /\ call.emitted = <<>>

\* $set under 'arr.$[e]' with the filter {e: {$gte: 1}} has changed the second
\* element of [0, MaxVal] and left the first
C24_Witness ==
  /\ call.done
  /\ ~call.threw
  /\ call.op = "$set"
  /\ call.selector = <<"a", "r", "r", ".", "$", "[", "e", "]">>
  /\ call.arrayFilters # <<>>
  /\ call.arrayFilters[1].kv[1].k = <<"e">>
  /\ getValue(call.doc, <<"a", "r", "r">>).items = <<Num(0), Num(MaxVal)>>
  /\ getValue(call.after, <<"a", "r", "r">>).items = <<Num(0), Num(1)>>
  /\ call.emitted = <<<<"a", "r", "r">>>>

\* ------------------------------------------------------------------ C25

\* an update is about to run the signal of a selector that has no listener
SignalsUnobserved ==
  IF stack = <<>> THEN FALSE
  ELSE /\ Top.kind = "update"
       /\ Top.pc = "signal"
       /\ Top.si <= Len(selectors)
       /\ setSize(sels[selectors[Top.si].sel].listeners) = 0

NotifiesObserved ==
  IF stack = <<>> THEN FALSE
  ELSE /\ Top.kind = "update"
       /\ Top.pc = "signal"
       /\ Top.si <= Len(selectors)
       /\ signalNotify(Top.fields, signals[selectors[Top.si].sel])
       /\ setSize(sels[selectors[Top.si].sel].listeners) > 0

\* C26: notifyAll of a selector with listeners leaves the selector cached with its
\* current view, and goes into the loop over its listeners exactly when the
\* selector had no cached value or a cached value that differs from the current
\* view (a selector without a cached value notifies whatever the view is,
\* undefined included); so a notifyAll that finds the value of the notifyAll
\* before it still current invokes no listener.
C26_NotifyOnlyOnNewValue ==
  [][NotifiesObserved =>
       LET s == selectors[Top.si].sel
           v == ViewOf(s, doc)
           after == stack'[Len(stack)]
       IN /\ sels'[s].cached
          /\ sels'[s].value = v
          /\ after.pc = "loop" <=> (~sels[s].cached \/ sels[s].value # v)
          /\ after.pc = "loop" => after.val = v /\ after.sel = s
          /\ after.pc # "loop" => after.pc = "signal" /\ after.invoked = Top.invoked /\ hist' = hist]_vars

\* an update has called notifyAll of a selector with listeners whose cached value
\* is still its view: no listener was invoked
C26_Witness ==
  /\ Len(stack) = 1
  /\ Top.kind = "update"
  /\ Top.pc = "signal"
  /\ Top.si > 1
  /\ Top.invoked = 0
  /\ LET s == selectors[Top.si - 1].sel
     IN /\ s \in DOMAIN hist.preSels
        /\ signalNotify(Top.fields, signals[s])
        /\ setSize(sels[s].listeners) > 0
        /\ hist.preSels[s].cached
        /\ hist.preSels[s].value = ViewOf(s, doc)

\* ------------------------------------------------------------------ C27

\* C27: in the round of an update whose listeners make no calls, the listeners of
\* a selector are invoked in the order in which they were subscribed (the order
\* of its listener set when the update was called), one after the other from the
\* first, all of them by the end of the update, and every one of them is given
\* the same value, the new view of the selector.
C27_SubscriptionOrderSameValue ==
  (Len(stack) = 1 /\ hist.active /\ hist.quiet) =>
    \A s \in DOMAIN hist.preSels :
      LET pre == setCompact(hist.preSels[s].listeners)
          called == SelectSeq(hist.log, LAMBDA e : e.s = s)
      IN /\ Len(called) <= Len(pre)
         /\ \A i \in DOMAIN called : called[i].l = pre[i] /\ called[i].v = ViewOf(s, doc)
         /\ (AtReturn /\ called # <<>>) => Len(called) = Len(pre)

\* listener 2 was subscribed before listener 1, and an update has invoked 2 and
\* then 1 with the same value
C27_Witness ==
  /\ OuterAtReturn
  /\ hist.quiet
  /\ \E s \in DOMAIN hist.preSels :
       /\ setCompact(hist.preSels[s].listeners) = <<2, 1>>
       /\ SelectSeq(hist.log, LAMBDA e : e.s = s)
            = <<[s |-> s, l |-> 2, v |-> ViewOf(s, doc)], [s |-> s, l |-> 1, v |-> ViewOf(s, doc)]>>

\* ------------------------------------------------------------------ C28

\* C28: Store.update is synchronous and ordered.  When an update that changes
\* something begins its notifications, the document holds every mutation of the
\* call and the changed list is complete, and no listener has been invoked for it
\* yet; from then on the document and the list stay as they are while the update
\* goes through the selectors in the order of their creation, from the first, one
\* at a time, the listeners being those of the selector it is at; a call made by
\* a listener runs on top of the update, which waits in that listener; and the
\* update returns only when it has gone through every selector with no listener
\* running, handing control back to the listener that called it.
C28_UpdateSynchronousOrdered ==
  /\ [][(Len(stack') = Len(stack) + 1 /\ stack'[Len(stack')].kind = "update") =>
          LET f == stack'[Len(stack')]
          IN /\ \E exprs \in UpdateInputs :
                  LET m == mutateAll(doc, exprs, EmptyCondition)
                  IN doc' = m.doc /\ f.fields = changedFields(m.emitted)
             /\ f.pc = "signal"
             /\ f.si = 1
             /\ f.invoked = 0
             /\ sels' = sels
             /\ hist'.log = IF stack = <<>> THEN <<>> ELSE hist.log
             /\ SubSeq(stack', 1, Len(stack)) = stack]_vars
  /\ [][(stack # <<>> /\ Len(stack') = Len(stack)) =>
          (Top.kind = "update" =>
             LET f == stack'[Len(stack)]
             IN /\ doc' = doc
                /\ f.kind = "update"
                /\ f.fields = Top.fields
                /\ f.si \in {Top.si, Top.si + 1}
                /\ f.si = Top.si + 1 => f.pc = "signal"
                /\ f.pc \in {"loop", "listener"} => f.sel = selectors[f.si].sel
                /\ f.invoked >= Top.invoked)]_vars
  /\ [][(Len(stack') < Len(stack)) =>
          (Top.kind = "update" => AtReturn /\ stack' = Pop)]_vars
  /\ [](\A i \in 1..(Len(stack) - 1) : stack[i].pc = "listener")

\* an update made by a listener of a running update has returned to that
\* listener, and the running update has not returned yet
C28_Witness ==
  /\ Len(stack) = 1
  /\ Top.kind = "update"
  /\ Top.pc = "listener"
  /\ ret.call = "update"
  /\ ret.modified
  /\ budget.nested = 1
  /\ doc # hist.preDoc

\* ------------------------------------------------------------------ C29

\* C29: an update called with a list of expressions (and a condition that holds
\* for the document) applies every expression of the list, in list order, and
\* its changed list is the union of the paths the expressions changed: the
\* document afterwards is what applying the expressions one after the other
\* gives, and the changed list holds the field of every $inc and of every $set
\* that found another value at its turn.
C29_AllExpressionsApplied ==
  LET n == Len(call.exprs)
      e(i) == call.exprs[i]
      inOrder[i \in 0..n] ==
        IF i = 0 THEN call.doc
        ELSE [inOrder[i - 1] EXCEPT ![e(i).f] = IF e(i).op = "$inc" THEN @ + e(i).v ELSE e(i).v]
      union == {<<e(i).f>> : i \in {j \in 1..n : e(j).op = "$inc" \/ inOrder[j - 1][e(j).f] # e(j).v}}
  IN (call.done /\ queryTest(call.condition, call.doc)) =>
       /\ call.after = inOrder[n]
       /\ Range(call.fields) = union

\* ------------------------------------------------------------------ C30

\* C30: within one round of notifyAll every listener is invoked at most once,
\* also when listeners unsubscribe and subscribe listeners of the selector (the
\* running one included) from inside their callbacks, so that the number of
\* invocations of a round is at most the number of listeners.
C30_AtMostOncePerRound ==
  \A l \in Listeners : Cardinality({i \in DOMAIN call.seen : call.seen[i] = l}) <= 1


\* ------------------------------------------------------------------ C31

\* C31: when a listener of a selector has made a nested update that changed the
\* value of the selector (the selector has delivered two different values within
\* one outermost update), then at the return of the outermost update the last
\* value delivered to every repeat listener still registered on the selector is
\* what the selector's getState returns.
C31_NoStaleValueAfterNested ==
  OuterAtReturn =>
    \A s \in DOMAIN sels :
      LET called == {i \in DOMAIN hist.log : hist.log[i].s = s}
          current == selectorGetState(sels[s], doc, modified, prevState).value
      IN (~hist.quiet /\ \E i, j \in called : hist.log[i].v # hist.log[j].v) =>
           \A l \in setMembers(sels[s].listeners) \ sels[s].onceOnly :
             Invocations(s, l) # {} =>
               hist.log[CHOOSE i \in Invocations(s, l) : \A j \in Invocations(s, l) : j <= i].v
                 = current


\* ------------------------------------------------------------------ C32

\* C32: while a listener invoked by an update is running, getState of every other
\* selector that depends on a path the update changed returns the selector's view
\* of the document as the update left it, whether the selector was created
\* before or after the one whose listener is running.
C32_OtherSelectorsCurrentInListener ==
  InFanOut =>
    \A s \in DOMAIN sels \ {Top.sel} :
      signalNotify(Top.fields, signals[s]) =>
        selectorGetState(sels[s], doc, modified, prevState).value = ViewOf(s, doc)


\* ------------------------------------------------------------------ C33

\* C33: whatever subscribe, Unsubscribe and removeAll calls the listeners of a
\* notifyAll round make, and however the listeners end, every function of the
\* once-only set of the selector is in its listener set, so that a function
\* subscribed without runOnce is never removed as a once-only one.
C33_OnceOnlySubsetOfListeners ==
  call.o.onceOnly \subseteq setMembers(call.o.listeners)


\* ------------------------------------------------------------------ C34

\* C34: calling an Unsubscribe function whose registration has ended (by an
\* earlier Unsubscribe call, by the removal of a once-only listener after its
\* run, or by the removal of a listener that threw) changes neither the listener
\* set nor the once-only set of the selector, also when the listener has been
\* subscribed again since: the newer registration stays.
C34_EndedUnsubscribeIsNoOp ==
  [][(call'.ops = call.ops + 1 /\ call'.last.op = "unsub" /\ call'.last.stale) =>
        /\ setMembers(call'.o.listeners) = setMembers(call.o.listeners)
        /\ call'.o.onceOnly = call.o.onceOnly]_vars


\* ------------------------------------------------------------------ C35

\* C35: $push on an array emits the path of the array if and only if the array
\* afterwards ($each inserted at $position, sorted by $sort, cut by $slice)
\* differs from the array before in length or contents; with an empty $each and
\* a $slice, positive or negative, that cuts no element, nothing is emitted.
C35_PushEmitsIffChanged ==
  LET arr == <<"a", "r", "r">>
      old == getValue(call.doc, arr)
      new == getValue(call.after, arr)
  IN (call.done /\ ~call.threw /\ call.op = "$push" /\ call.selector = arr) =>
       /\ call.emitted \in {<<>>, <<arr>>}
       /\ call.emitted = <<arr>> <=> new # old


\* ------------------------------------------------------------------ C36

\* C36: $addToSet on an array appends the values to add that the array does not
\* hold, each once and in the order given, after the elements the array had,
\* which stay as they were and in their order; when the array holds every value
\* to add (repeated values among them or not) the array is unchanged and nothing
\* is emitted; a path is emitted only if the array changed.
C36_AddToSetAppendsMissing ==
  LET arr == <<"a", "r", "r">>
      old == getValue(call.doc, arr).items
      new == getValue(call.after, arr).items
      each == IF call.val.t = "obj" THEN getValue(call.val, <<"$", "e", "a", "c", "h">>).items
              ELSE <<call.val>>
      missing == {i \in DOMAIN each : /\ each[i] \notin Range(old)
                                      /\ \A j \in 1..(i - 1) : each[j] # each[i]}
      added[i \in 0..Len(each)] ==
        IF i = 0 THEN <<>>
        ELSE IF i \in missing THEN Append(added[i - 1], each[i]) ELSE added[i - 1]
  IN (call.done /\ call.op = "$addToSet") =>
       /\ new = old \o added[Len(each)]
       /\ missing = {} => call.emitted = <<>>
       /\ call.emitted # <<>> => new # old


\* ------------------------------------------------------------------ C37

\* C37: for an expression {$cond: ...}, {$switch: ...}, {$filter: ...} or
\* {$map: ...} with an object or array argument, at the top or as the value of
\* the key a or of the keys a, b, no returned path has a role name (if, then,
\* else, case, branches, default, input, as, cond, limit, in) as a segment, and
\* every field reference inside the value of a designated slot of the operator
\* is among the returned paths, provided no role name is itself used as a field
\* name inside the argument.
C37_KeyedOperatorSlots ==
  LET single(e, k) == e.t = "obj" /\ Len(e.kv) = 1 /\ e.kv[1].k = k
      under(e, k) == IF single(e, k) THEN e.kv[1].v ELSE e
      inner == under(under(call.expr, <<"a">>), <<"b">>)
      op == inner.kv[1].k
      arg == inner.kv[1].v
      roles == {<<"i", "f">>, <<"t", "h", "e", "n">>, <<"e", "l", "s", "e">>, <<"c", "a", "s", "e">>,
                <<"b", "r", "a", "n", "c", "h", "e", "s">>, <<"d", "e", "f", "a", "u", "l", "t">>,
                <<"i", "n", "p", "u", "t">>, <<"a", "s">>, <<"c", "o", "n", "d">>,
                <<"l", "i", "m", "i", "t">>, <<"i", "n">>}
      at(v, k) == IF v.t = "obj" THEN getValue(v, k) ELSE Undef
      branch == LET b == at(arg, <<"b", "r", "a", "n", "c", "h", "e", "s">>)
                IN IF b.t = "arr" /\ b.items # <<>> THEN b.items[1] ELSE Undef
      slotValues ==
        CASE op = K_cond /\ arg.t = "arr" -> Range(arg.items)
          [] op = K_cond -> {at(arg, <<"i", "f">>), at(arg, <<"t", "h", "e", "n">>),
                             at(arg, <<"e", "l", "s", "e">>)}
          [] op = K_switch -> {at(branch, <<"c", "a", "s", "e">>), at(branch, <<"t", "h", "e", "n">>),
                               at(arg, <<"d", "e", "f", "a", "u", "l", "t">>)}
          [] op = K_filter -> {at(arg, <<"i", "n", "p", "u", "t">>), at(arg, <<"c", "o", "n", "d">>),
                               at(arg, <<"l", "i", "m", "i", "t">>)}
          [] OTHER -> {at(arg, <<"i", "n", "p", "u", "t">>), at(arg, <<"i", "n">>)}
      RECURSIVE references(_)
      references(v) ==
        CASE v.t = "str" -> IF startsWith(v.s, <<"$">>) /\ ~startsWith(v.s, <<"$", "$">>)
                              THEN {SubSeq(v.s, 2, Len(v.s))} ELSE {}
          [] v.t = "arr" -> UNION {references(v.items[i]) : i \in DOMAIN v.items}
          [] v.t = "obj" -> UNION {IF v.kv[i].k = K_literal THEN {} ELSE references(v.kv[i].v) :
                                     i \in DOMAIN v.kv}
          [] OTHER -> {}
      \* the keys and the segments of the field references found inside a value
      RECURSIVE names(_)
      names(v) ==
        CASE v.t = "str" -> UNION {Range(Segments(r)) : r \in references(v)}
          [] v.t = "arr" -> UNION {names(v.items[i]) : i \in DOMAIN v.items}
          [] v.t = "obj" -> UNION {{v.kv[i].k} \cup names(v.kv[i].v) : i \in DOMAIN v.kv}
          [] OTHER -> {}
      \* no role name is used as a field name inside the argument
      plain == IF arg.t = "arr" /\ op # K_cond
                 THEN names(arg) \cap roles = {}
                 ELSE \A v \in slotValues : names(v) \cap roles = {}
  IN (/\ call.done
      /\ inner.t = "obj"
      /\ Len(inner.kv) = 1
      /\ op \in {K_cond, K_switch, K_filter, K_map}
      /\ arg.t \in {"obj", "arr"}
      /\ plain) =>
       /\ \A p \in call.paths : Range(Segments(p)) \cap roles = {}
       /\ \A v \in slotValues : references(v) \subseteq call.paths

\* the paths of {a: {b: {$filter: {input: "$x", as: "v", cond: {$gt: ["$y", 1]},
\* limit: 1}}}}: the two references, and a.b for the limit
C37_Witness ==
  /\ call.done
  /\ ~call.includeRootFields
  /\ call.expr.t = "obj"
  /\ call.expr.kv[1].k = <<"a">>
  /\ call.expr.kv[1].v.t = "obj"
  /\ call.expr.kv[1].v.kv[1].k = <<"b">>
  /\ call.expr.kv[1].v.kv[1].v.t = "obj"
  /\ call.expr.kv[1].v.kv[1].v.kv[1].k = K_filter
  /\ call.paths = {<<"x">>, <<"y">>, <<"a", ".", "b">>}


\* ------------------------------------------------------------------ C38

\* C38: tokenizePath of a selector without a placeholder gives one node, the
\* selector as its parent, with no child, and no identifiers.  Of a selector with
\* placeholders it gives one node for every placeholder, in order, whose parent
\* is the text between the previous placeholder (or the start) and this one and
\* whose child is the identifier ("$" for $[]), then a node for the segments
\* after the last placeholder if there are any, and the named identifiers in
\* order of appearance, none of them "$" or empty.  It throws exactly when an
\* identifier is not a lowercase letter followed by letters and digits.
C38_TokenizePathChain ==
  LET lower == {"a", "b", "c", "d", "e", "f", "g", "h", "i", "j", "k", "l", "m", "n", "o", "p",
                "q", "r", "s", "t", "u", "v", "w", "x", "y", "z"}
      upper == {"A", "B", "C", "D", "E", "F", "G", "H", "I", "J", "K", "L", "M", "N", "O", "P",
                "Q", "R", "S", "T", "U", "V", "W", "X", "Y", "Z"}
      wellFormed(id) == \/ id = <<>>
                        \/ /\ id[1] \in lower
                           /\ \A i \in DOMAIN id : id[i] \in lower \cup upper \/ isDigit(id[i])
      RECURSIVE chain(_)
      chain(p) ==
        LET opens == {k \in 1..(Len(p) - 1) :
                        /\ p[k] = "$" /\ p[k + 1] = "["
                        /\ k > 1 => p[k - 1] = "."}
            k == Min(opens)
            close == Min({c \in (k + 2)..Len(p) : p[c] = "]"})
            id == SubSeq(p, k + 2, close - 1)
            rest == SubSeq(p, close + 2, Len(p))
            more == IF rest = <<>> THEN [nodes |-> <<>>, ids |-> <<>>] ELSE chain(rest)
        IN IF opens = {} THEN [nodes |-> <<[parent |-> p, child |-> <<>>]>>, ids |-> <<>>]
           ELSE [nodes |-> <<[parent |-> SubSeq(p, 1, k - 2),
                             child |-> IF id = <<>> THEN <<"$">> ELSE id]>> \o more.nodes,
                 ids |-> <<id>> \o more.ids]
      expected == chain(call.selector)
      token == tokenizePath(call.selector)
  IN call.done =>
       /\ token.threw <=> \E i \in DOMAIN expected.ids : ~wellFormed(expected.ids[i])
       /\ token.threw => call.threw
       /\ ~token.threw =>
            /\ token.nodes = expected.nodes
            /\ token.vars = SelectSeq(expected.ids, LAMBDA id : id # <<>>)
            /\ \A i \in DOMAIN token.vars : token.vars[i] \notin {<<>>, <<"$">>}

====
